---- MODULE Spec2Model ----
(***************************************************************************)
(* Model of the real-time simulation core of src/main.py: the fixed-       *)
(* timestep scheduler, the particle object pool, the toroidal wraparound   *)
(* of entity positions, the combo countdown and the finisher state machine.*)
(*                                                                         *)
(* Time is counted in units of 1/3 ms, so that one physics tick            *)
(* (Cfg.PHYSICS_DT = 1/60 s) is 50 units and the frame deltas that         *)
(* pygame.time.get_ticks() yields (whole milliseconds) are multiples of 3. *)
(* Countdown timers and the time-scale multiplier are counted in tenths:   *)
(* time_scale 1.0 is 10, 0.5 is 5 and 0.1 is 1; a timer of 180 ticks is    *)
(* 1800.                                                                   *)
(***************************************************************************)
EXTENDS Integers, Sequences, FiniteSets, TLC

VARIABLES
    \* ---- fixed-timestep scheduler (g_game_state) ----
    physics_accumulator,   \* g_game_state["physics_accumulator"], 1/3 ms
    physics_updates,       \* ticks run by the last update_game_state call
    render_alpha,          \* numerator of render_alpha (over PHYSICS_DT)
    frame_ran,             \* history: update_game_state has run at least once
    update_timers,         \* g_game_state["update_timers"]: ai, particles, ui, effects
    \* ---- combo countdown ----
    combo,                 \* g_game_state["combo"]: current, timer, kills, max
    armed,                 \* history: add_combo has armed combo.timer
    armed_combo,           \* history: combo.current when the timer was armed
    quiet_ticks,           \* history: physics ticks run since the timer was armed
    kills_done,            \* history: number of kills so far
    \* ---- particle pool (ParticlePool) ----
    pool,                  \* pool[i]: [active, life] of slot i
    active_indices,        \* ParticlePool.active_indices (a list)
    inactive_indices,      \* ParticlePool.inactive_indices (a set)
    last_op,               \* history: the pool operation that ran last
    last_get,              \* history: slot returned by the last get(), or NoSlot
    got_active,            \* history: the last get() returned a slot that was active
    \* ---- entity positions, x axis, in cells of 50 px ----
    g_ship_x,              \* g_ship.x
    g_asteroids,           \* list of [x, vx, health, is_boss]
    g_bullets,             \* list of [x, vx, life]
    g_powerups,            \* list of [x, vx, lifetime]
    after_tick,            \* history: the last step was a physics tick
    \* ---- combat state, stepped call by call through the physics tick ----
    pc,                    \* the call of the loop body that runs next
    finisher,              \* g_game_state["finisher"]: phase, executing, execution_timer,
                           \*   target, meter, ready
    time_scale,            \* g_game_state["time_scale"], tenths
    g_ship,                \* g_ship: dashing, invulnerable, respawning (tenths of a tick)
    dash_cooldown,         \* g_game_state["dash"]["cooldown"], tenths of a tick
    g_enemies,             \* the enemies alive
    combo_current,         \* g_game_state["combo"]["current"]
    achievements_unlocked, \* g_game_state["achievements_unlocked"]
    visited,               \* history: phases entered since the last finisher start
    locked_target,         \* history: target given to the last start_finisher_execution
    finisher_calls,        \* history: update_finisher calls since the last start
    started_while_executing, \* history: a finisher was started while one was executing
    shockwave_hits,        \* history: apply_shockwave_damage hits on each enemy since
                           \*   the last finisher start
    finisher_bonus,        \* history: score gained and crystals dropped by
                           \*   update_finisher since the last finisher start
    \* ---- control flow of update_game_state, statement by statement ----
    loop_pc,               \* the statement of update_game_state that runs next
    frame_dt,              \* dt of the frame in progress
    calls,                 \* history: the calls made so far by the current tick
    frame_calls,           \* history: ticks and sub-rate updates run so far by the frame
    asteroid_x,            \* x of one asteroid of the field, in cells
    asteroid_prev_x,       \* its prev_x, the interpolation baseline
    level_transition,      \* g_game_state["effects"]["level_transition"], tenths
    field_clear,           \* g_asteroids is empty
    grid_ops,              \* history: operations on g_spatial_grid in the current tick
    \* ---- one pass of handle_bullet_collisions ----
    field_bullets,         \* g_bullets: list of [x]
    field_asteroids,       \* g_asteroids: list of [x, size, is_boss, health]
    field_enemies,         \* g_enemies: list of [x, health]
    pass_before,           \* history: the three lists as the last pass found them
    pass_result,           \* history: removal sets, additions and handler log of it
    pass_ran,              \* history: the last step was a pass
    \* ---- sub-rate updates of update_decoupled_systems ----
    total_dt,              \* history: sum of the clamped frame deltas so far
    update_runs,           \* history: runs of each sub-rate update so far
    \* ---- the ship among hazards ----
    hz_ship,               \* g_ship: x, shield_active, invulnerable, respawning, dashing
    lives,                 \* g_game_state["lives"]
    game_over,             \* g_game_state["game_over"]
    hz_asteroids,          \* x of the asteroids near the ship
    hz_enemies,            \* x of the enemies near the ship
    hz_enemy_bullets,      \* x of the enemy bullets near the ship
    tick_damage,           \* history: shield and life losses of the last tick, and the
                           \*   handle_ship_damage calls on a ship that was not vulnerable
    \* ---- the spatial grid ----
    sg_grid,               \* g_spatial_grid.grid: cell key -> list of entities
    sg_inserted,           \* entities inserted since the last clear
    sg_pos,                \* x, y of each inserted entity
    sg_query,              \* history: object and position of the last query
    sg_nearby,             \* history: what the last query returned
    \* ---- check_collision ----
    cc_ship,               \* g_ship: x, y
    cc_asteroid,           \* an asteroid: x, y, radius
    cc_hit,                \* history: what the last check_collision returned
    cc_checked,            \* history: the check ran on the present positions
    \* ---- the finisher meter ----
    fm,                    \* g_game_state["finisher"]: meter, ready
    fm_combo,              \* g_game_state["combo"]["current"]
    fm_phase,              \* part of the finisher sequence: idle, lock_on, running
    fm_cause,              \* history: what made the last step
    \* ---- powerup pickup ----
    pk_ship_x,             \* g_ship.x, in cells
    pk_lives,              \* g_game_state["lives"]
    pk_game_over,          \* g_game_state["game_over"]
    pk_powerups,           \* g_powerups: list of [x, type]
    pk_cause,              \* history: what made the last step
    pk_picked,             \* history: Life powerups taken by the last pickup pass
    \* ---- one handle_collisions call: bullets, asteroids, ship ----
    tk_ship_x,             \* g_ship.x, in cells
    tk_bullets,            \* g_bullets
    tk_asteroids,          \* g_asteroids
    tk_hit,                \* history: the asteroid that damaged the ship in the last call
    tk_ran,                \* history: handle_collisions has run on this field
    \* ---- broad phase against the exact check ----
    bp_grid,               \* g_spatial_grid.grid
    bp_target,             \* the inserted object: x, y, radius (radius -1: none)
    bp_query,              \* the querying ship or player bullet: x, y (asked: it has queried)
    bp_nearby              \* what get_nearby_objects returned

schedVars == <<physics_accumulator, physics_updates, render_alpha, frame_ran, update_timers>>
comboVars == <<combo, armed, armed_combo, quiet_ticks, kills_done>>
poolVars  == <<pool, active_indices, inactive_indices, last_op, last_get, got_active>>
wrapVars  == <<g_ship_x, g_asteroids, g_bullets, g_powerups, after_tick>>
flowVars  == <<loop_pc, frame_dt, calls, frame_calls, asteroid_x, asteroid_prev_x,
               level_transition, field_clear, grid_ops>>
fieldVars == <<field_bullets, field_asteroids, field_enemies, pass_before, pass_result,
               pass_ran>>
rateVars  == <<total_dt, update_runs>>
shipVars  == <<hz_ship, lives, game_over, hz_asteroids, hz_enemies, hz_enemy_bullets,
               tick_damage>>
gridVars  == <<sg_grid, sg_inserted, sg_pos, sg_query, sg_nearby>>
collVars  == <<cc_ship, cc_asteroid, cc_hit, cc_checked>>
meterVars == <<fm, fm_combo, fm_phase, fm_cause>>
pickVars  == <<pk_ship_x, pk_lives, pk_game_over, pk_powerups, pk_cause, pk_picked>>
tickVars  == <<tk_ship_x, tk_bullets, tk_asteroids, tk_hit, tk_ran>>
broadVars == <<bp_grid, bp_target, bp_query, bp_nearby>>
gameVars  == <<pc, finisher, time_scale, g_ship, dash_cooldown, g_enemies, combo_current,
               achievements_unlocked, visited, locked_target, finisher_calls,
               started_while_executing, shockwave_hits, finisher_bonus>>

Min(a, b) == IF a < b THEN a ELSE b
Max(a, b) == IF a > b THEN a ELSE b

(***************************************************************************)
(* Program constants                                                       *)
(***************************************************************************)
UnitsPerMs == 3            \* time unit: 1/3 ms (get_ticks() / 1000.0)
PHYSICS_DT == 50           \* 1/60 s
MaxFrameDt == 150          \* min(..., 0.05): 50 ms
MaxPhysicsUpdates == 4     \* physics_updates < 4
IntervalAi == 200          \* 1/15 s
IntervalParticles == 100   \* 1/30 s
IntervalUi == 150          \* 1/20 s
IntervalEffects == 150     \* 1/20 s
NormalTimeScale == 10      \* time_scale 1.0
finisher_lock_on_scale == 5    \* 0.5
finisher_time_scale == 1       \* 0.1
combo_timeout == 1800      \* 180 ticks, in tenths
TickTenths == 10           \* one tick of a countdown that "-= 1" steps
finisher_lock_on_time == 30
finisher_pre_impact_time == 6
finisher_impact_time == 60
finisher_post_impact_time == 30
finisher_invuln_buffer_ticks == 30     \* int(finisher_invuln_buffer * fps)
ship_invulnerability_time == 1200      \* 120 ticks
ship_respawn_duration == 900           \* 90 ticks
dash_duration == 150                   \* 15 ticks
dash_cooldown_time == 1200             \* Cfg.dash_cooldown: 120 ticks
level_transition_duration == 1200      \* 120 ticks
enemy_max_count == 2
combo_medium_threshold == 5
combo_high_threshold == 10
fill_base == 10
fill_medium == 15
fill_high == 20
MeterFull == 100

(***************************************************************************)
(* Bounds of the model                                                     *)
(***************************************************************************)
MaxRawMs == 70             \* raw frame deltas 0..MaxRawMs ms (the clamp is at 50)
MaxKills == 1              \* kills in a run of the combo specification
PoolSize == 3              \* capacity of the particle pool (the code's default is 1000)
MaxLife == 2               \* particle life given by a caller, in ticks
ArenaWidth == 6            \* width of the play field in cells (the code's default is 16)
MaxBossHealth == 2         \* hits a boss asteroid takes (the code's is 50)
MaxBullets == 1            \* player bullets in flight
MaxBulletLife == 3         \* bullet lifetime in ticks (the code's is 50)
MaxPowerups == 1           \* powerups on the field
MaxPowerupLife == 3        \* powerup lifetime in ticks
MaxCombo == 10             \* add_combo calls in a run of the combat specification
MaxOverrun == 25           \* ticks run with execution_timer at or below zero
MaxFieldBullets == 2       \* player bullets placed for a pass
MaxFieldAsteroids == 2     \* asteroids placed for a pass
MaxOutside == 1             \* how far outside the arena an inserted object can be, in units
MaxPickups == 2             \* powerups on the field in the pickup model
MaxHazards == 1             \* asteroids, enemies, enemy bullets near the ship (each)
MaxGridEntities == 2        \* entities inserted into the spatial grid
FieldW == 12                \* width of the wrap-around field of the collision check
FieldH == 4                 \* its height
MaxElapsed == 600          \* clamped frame time summed in a run, in 1/3 ms (200 ms)

(***************************************************************************)
(* update_timer(value, decrement): countdown scaled by time_scale          *)
(***************************************************************************)
update_timer(value, decrement, ts) ==
    IF value > 0 THEN Max(0, value - decrement * ts) ELSE 0

(***************************************************************************)
(* update_game_state: the fixed-timestep loop                              *)
(***************************************************************************)
\* variant of ClampDt: the frame delta is not capped
ClampDtUncapped(ms) == ms * UnitsPerMs

\* dt = min(frame_start_time - last_frame_time, 0.05)
ClampDt(ms) == Min(ms * UnitsPerMs, MaxFrameDt)

\* variant of PhysicsLoop: "if" in place of "while", one tick per frame
PhysicsLoopSingle(acc, updates) ==
    IF acc >= PHYSICS_DT /\ updates < MaxPhysicsUpdates
    THEN <<acc - PHYSICS_DT, updates + 1>>
    ELSE <<acc, updates>>

\* while physics_accumulator >= PHYSICS_DT and physics_updates < 4: ... -= PHYSICS_DT
RECURSIVE PhysicsLoop(_, _)
PhysicsLoop(acc, updates) ==
    IF acc >= PHYSICS_DT /\ updates < MaxPhysicsUpdates
    THEN PhysicsLoop(acc - PHYSICS_DT, updates + 1)
    ELSE <<acc, updates>>

\* variant of DrainTimer: "if" in place of "while", one step per frame
DrainTimerOnce(t, interval, runs) ==
    IF t >= interval THEN <<t - interval, runs + 1>> ELSE <<t, runs>>

\* timers[k] += dt; while timers[k] >= interval: run; timers[k] -= interval
RECURSIVE DrainTimer(_, _, _)
DrainTimer(t, interval, runs) ==
    IF t >= interval THEN DrainTimer(t - interval, interval, runs + 1)
    ELSE <<t, runs>>

(***************************************************************************)
(* Combo counter: add_combo (counter part) and update_combo_system         *)
(***************************************************************************)
add_combo_counter(cb) ==
    [cb EXCEPT !.kills = (IF cb.current = 0 THEN 0 ELSE cb.kills) + 1,
               !.current = cb.current + 1,
               !.timer = combo_timeout]

update_combo_system(cb, ts) ==
    IF cb.timer > 0
    THEN LET t == update_timer(cb.timer, 1, ts)
         IN IF t <= 0
            THEN [cb EXCEPT !.timer = t,
                            !.max = IF cb.current > cb.max THEN cb.current ELSE cb.max,
                            !.current = 0,
                            !.kills = 0]
            ELSE [cb EXCEPT !.timer = t]
    ELSE cb

\* update_ui_systems runs update_combo_system once per pending UI step
RECURSIVE RunUiSystems(_, _, _)
RunUiSystems(cb, runs, ts) ==
    IF runs = 0 THEN cb ELSE RunUiSystems(update_combo_system(cb, ts), runs - 1, ts)

(***************************************************************************)
(* update_game_state with no finisher in flight (time_scale 1.0): the      *)
(* physics loop, update_decoupled_systems and update_visual_effects.       *)
(* killTick = 0: no kill this frame; killTick = k: handle_collisions of    *)
(* the k-th tick of the frame destroys one target and calls add_combo.     *)
(***************************************************************************)
UpdateGameStateFrame(ms, killTick) ==
    LET dt   == ClampDt(ms)
        loop == PhysicsLoop(physics_accumulator + dt, 0)
        n    == loop[2]
        kill == killTick >= 1
        cb1  == IF kill THEN add_combo_counter(combo) ELSE combo
        ai   == DrainTimer(update_timers.ai + dt, IntervalAi, 0)
        pa   == DrainTimer(update_timers.particles + dt, IntervalParticles, 0)
        ui   == DrainTimer(update_timers.ui + dt, IntervalUi, 0)
        ef   == DrainTimer(update_timers.effects + dt, IntervalEffects, 0)
        cb2  == RunUiSystems(cb1, ui[2], NormalTimeScale)
        cb3  == update_combo_system(cb2, NormalTimeScale)
        quiet == combo_timeout \div NormalTimeScale
    IN /\ killTick <= n
       /\ kill => kills_done < MaxKills
       /\ physics_accumulator' = loop[1]
       /\ physics_updates' = n
       /\ render_alpha' = loop[1]
       /\ frame_ran' = TRUE
       /\ update_timers' = [ai |-> ai[1], particles |-> pa[1], ui |-> ui[1], effects |-> ef[1]]
       /\ combo' = cb3
       /\ armed' = (armed \/ kill)
       /\ armed_combo' = IF kill THEN cb1.current ELSE armed_combo
       /\ quiet_ticks' = IF kill THEN n - killTick
                         ELSE IF armed THEN Min(quiet_ticks + n, quiet) ELSE 0
       /\ kills_done' = IF kill THEN kills_done + 1 ELSE kills_done

InitSched ==
    /\ physics_accumulator = 0
    /\ physics_updates = 0
    /\ render_alpha = PHYSICS_DT          \* "render_alpha": 1.0
    /\ frame_ran = FALSE
    /\ update_timers = [ai |-> 0, particles |-> 0, ui |-> 0, effects |-> 0]

InitCombo ==
    /\ combo = [current |-> 0, timer |-> 0, kills |-> 0, max |-> 0]
    /\ armed = FALSE
    /\ armed_combo = 0
    /\ quiet_ticks = 0
    /\ kills_done = 0

(***************************************************************************)
(* ParticlePool                                                            *)
(***************************************************************************)
NoSlot == 0 - 1
Slots == 0 .. (PoolSize - 1)
PoolTimeScales == {NormalTimeScale, finisher_lock_on_scale}

Range(seq) == {seq[i] : i \in 1 .. Len(seq)}

PoolState == [pool |-> pool, active |-> active_indices, inactive |-> inactive_indices]

\* variant of PopInactive: the index is read but left in the free set
PopInactiveKeep(free, idx) == free

\* idx = self.inactive_indices.pop()
PopInactive(free, idx) == free \ {idx}

\* variant of GetExhausted: an exhausted pool hands out slot 0 again
GetExhaustedSteal(st) ==
    [pool |-> [st.pool EXCEPT ![0].active = TRUE],
     active |-> Append(st.active, 0), inactive |-> st.inactive, result |-> 0]

\* get() on an exhausted pool: return None
GetExhausted(st) ==
    [pool |-> st.pool, active |-> st.active, inactive |-> st.inactive, result |-> NoSlot]

\* ParticlePool.get, idx being the element set.pop() removes
ParticlePool_get(st, idx) ==
    IF st.inactive # {}
    THEN [pool |-> [st.pool EXCEPT ![idx].active = TRUE],
          active |-> Append(st.active, idx),
          inactive |-> PopInactive(st.inactive, idx),
          result |-> idx]
    ELSE GetExhausted(st)

\* variant of ParticlePool.update: expired slots leave the active list but
\* are not handed back to the free set
ParticlePool_update_leak(st, ts) ==
    LET aged == [i \in Slots |->
                    IF i \in Range(st.active)
                    THEN [st.pool[i] EXCEPT !.life = st.pool[i].life - ts]
                    ELSE st.pool[i]]
        dead == {i \in Range(st.active) : aged[i].life <= 0}
    IN [pool |-> [i \in Slots |->
                    IF i \in dead THEN [aged[i] EXCEPT !.active = FALSE] ELSE aged[i]],
        active |-> SelectSeq(st.active, LAMBDA i : aged[i].life > 0),
        inactive |-> st.inactive]

\* ParticlePool.update(time_scale)
ParticlePool_update(st, ts) ==
    LET aged == [i \in Slots |->
                    IF i \in Range(st.active)
                    THEN [st.pool[i] EXCEPT !.life = st.pool[i].life - ts]
                    ELSE st.pool[i]]
        dead == {i \in Range(st.active) : aged[i].life <= 0}
    IN [pool |-> [i \in Slots |->
                    IF i \in dead THEN [aged[i] EXCEPT !.active = FALSE] ELSE aged[i]],
        active |-> SelectSeq(st.active, LAMBDA i : aged[i].life > 0),
        inactive |-> st.inactive \cup dead]

\* ParticlePool.clear()
ParticlePool_clear(st) ==
    [pool |-> [i \in Slots |->
                 IF i \in Range(st.active) THEN [st.pool[i] EXCEPT !.active = FALSE]
                 ELSE st.pool[i]],
     active |-> <<>>,
     inactive |-> st.inactive \cup Range(st.active)]

\* One iteration of a particle-creating loop (create_particles and the other
\* callers): particle = g_particle_pool.get(); if particle: particle.life = ...
CreateParticle(life) ==
    \E idx \in (IF inactive_indices = {} THEN {NoSlot} ELSE inactive_indices) :
        LET r == ParticlePool_get(PoolState, idx)
        IN /\ pool' = IF r.result # NoSlot
                      THEN [r.pool EXCEPT ![r.result].life = life]
                      ELSE r.pool
           /\ active_indices' = r.active
           /\ inactive_indices' = r.inactive
           /\ last_op' = "get"
           /\ last_get' = r.result
           /\ got_active' = (r.result # NoSlot /\ pool[r.result].active)

\* update_visual_effects: g_particle_pool.update(g_game_state["time_scale"])
UpdateParticles(ts) ==
    LET r == ParticlePool_update(PoolState, ts)
    IN /\ pool' = r.pool
       /\ active_indices' = r.active
       /\ inactive_indices' = r.inactive
       /\ last_op' = "update"
       /\ UNCHANGED <<last_get, got_active>>

\* reset_game: g_particle_pool.clear()
ClearParticles ==
    LET r == ParticlePool_clear(PoolState)
    IN /\ pool' = r.pool
       /\ active_indices' = r.active
       /\ inactive_indices' = r.inactive
       /\ last_op' = "clear"
       /\ UNCHANGED <<last_get, got_active>>

InitPool ==
    /\ pool = [i \in Slots |-> [active |-> FALSE, life |-> 0]]
    /\ active_indices = <<>>
    /\ inactive_indices = Slots
    /\ last_op = "init"
    /\ last_get = NoSlot
    /\ got_active = FALSE

(***************************************************************************)
(* Toroidal play field, x axis. Positions and velocities are whole cells   *)
(* of 50 px; the y axis runs through the same code with g_screen_height.   *)
(***************************************************************************)
g_screen_width == ArenaWidth
asteroid_spawn_margin == 1       \* 50 px
DropSpread == 1                  \* random.uniform(-50, 50) px
Velocities == {0 - 1, 0, 1}

\* variant of wrap_position: the coordinate is left as it is
wrap_position_none(x) == x

\* entity.x = entity.x % g_screen_width
wrap_position(x) == x % g_screen_width

\* update_physics_only: asteroids
MoveAsteroids(as) ==
    [i \in 1 .. Len(as) |-> [as[i] EXCEPT !.x = wrap_position(as[i].x + as[i].vx)]]

\* update_bullets: bullets are moved, aged and filtered, never wrapped
update_bullets(bs) ==
    LET moved == [i \in 1 .. Len(bs) |->
                    [bs[i] EXCEPT !.x = bs[i].x + bs[i].vx, !.life = bs[i].life - 1]]
    IN SelectSeq(moved, LAMBDA b : b.life > 0 /\ 0 <= b.x /\ b.x <= g_screen_width)

\* update_physics_only: powerups
MovePowerups(ps) ==
    LET moved == [i \in 1 .. Len(ps) |->
                    [ps[i] EXCEPT !.x = wrap_position(ps[i].x + ps[i].vx),
                                  !.lifetime = ps[i].lifetime - 1]]
    IN SelectSeq(moved, LAMBDA q : q.lifetime > 0)

\* check_collision at cell resolution: same cell, no wraparound
check_collision(x1, x2) == x1 = x2

\* handle_bullet_collisions with handle_asteroid_hit: every bullet in contact
\* is removed; the asteroid loses one health per hit until it is destroyed; a
\* destroyed boss drops a crystal at asteroid.x + off, any other asteroid
\* drops its powerup at asteroid.x.
BulletHits(bs, a) == {i \in 1 .. Len(bs) : check_collision(bs[i].x, a.x)}

handle_bullet_collisions(bs, as, ps, off, pvx) ==
    IF as = <<>>
    THEN [bullets |-> bs, asteroids |-> as, powerups |-> ps]
    ELSE LET a    == as[1]
             hits == BulletHits(bs, a)
             left == SelectSeq(bs, LAMBDA b : ~check_collision(b.x, a.x))
             dead == Cardinality(hits) >= a.health
             drop == [x |-> a.x + (IF a.is_boss THEN off ELSE 0), vx |-> pvx,
                      lifetime |-> MaxPowerupLife]
         IN [bullets |-> left,
             asteroids |-> IF dead THEN <<>>
                           ELSE <<[a EXCEPT !.health = a.health - Cardinality(hits)]>>,
             powerups |-> IF dead /\ Len(ps) < MaxPowerups THEN Append(ps, drop) ELSE ps]

\* handle_powerup_collisions: the ship collects the powerups it touches
handle_powerup_collisions(ps, shipx) ==
    SelectSeq(ps, LAMBDA q : ~check_collision(q.x, shipx))

\* One iteration of the physics loop: update_ship (velocity shipVx after the
\* controls), update_physics_only, handle_collisions.
WrapPhysicsTick(shipVx, off, pvx) ==
    LET ship1 == wrap_position(g_ship_x + shipVx)
        as1   == MoveAsteroids(g_asteroids)
        bs1   == update_bullets(g_bullets)
        ps1   == MovePowerups(g_powerups)
        col   == handle_bullet_collisions(bs1, as1, ps1, off, pvx)
    IN /\ g_ship_x' = ship1
       /\ g_asteroids' = col.asteroids
       /\ g_bullets' = col.bullets
       /\ g_powerups' = handle_powerup_collisions(col.powerups, ship1)
       /\ after_tick' = TRUE

\* handle_input: shoot_bullet() appends a bullet at the ship's nose
ShootBullet(dir) ==
    /\ Len(g_bullets) < MaxBullets
    /\ g_bullets' = Append(g_bullets, [x |-> g_ship_x, vx |-> dir, life |-> MaxBulletLife])
    /\ after_tick' = FALSE
    /\ UNCHANGED <<g_ship_x, g_asteroids, g_powerups>>

\* start_new_level / create_asteroid: a new asteroid inside the spawn margins
SpawnAsteroid(x, vx, health, boss) ==
    /\ g_asteroids = <<>>
    /\ g_asteroids' = <<[x |-> x, vx |-> vx, health |-> IF boss THEN health ELSE 1,
                         is_boss |-> boss]>>
    /\ after_tick' = FALSE
    /\ UNCHANGED <<g_ship_x, g_bullets, g_powerups>>

InitWrap ==
    /\ g_ship_x = g_screen_width \div 2
    /\ g_asteroids = <<>>
    /\ g_bullets = <<>>
    /\ g_powerups = <<>>
    /\ after_tick = FALSE

(***************************************************************************)
(* Combat state: dash, finisher state machine, kills and achievements.     *)
(* The loop body of update_game_state is stepped call by call. No combo    *)
(* times out and no ship is hit within a run of this part.                 *)
(***************************************************************************)
IDLE == "FinisherPhase.IDLE"
LOCK_ON == "FinisherPhase.LOCK_ON"
PRE_IMPACT == "FinisherPhase.PRE_IMPACT"
IMPACT == "FinisherPhase.IMPACT"
POST_IMPACT == "FinisherPhase.POST_IMPACT"
NoTarget == 0
EnemyIds == 1 .. enemy_max_count
combo_milestone_thresholds == <<5, 10>>

\* FinisherPhase.X.value; a str has no .value and stays as it is
PhaseValue(p) ==
    CASE p = IDLE -> "idle"
      [] p = LOCK_ON -> "lock_on"
      [] p = PRE_IMPACT -> "pre_impact"
      [] p = IMPACT -> "impact"
      [] p = POST_IMPACT -> "post_impact"
      [] OTHER -> p

\* save_game_state: save_data = g_game_state.copy() is a shallow copy, so
\* save_data["finisher"]["phase"] = phase.value writes the live finisher dict
save_game_state(fin) == [fin EXCEPT !.phase = PhaseValue(fin.phase)]

\* check_achievement(id): st is [finisher, combo_current, achievements, enemies]
check_achievement(st, id, cond) ==
    IF id \notin st.achievements /\ cond
    THEN [st EXCEPT !.achievements = st.achievements \cup {id},
                    !.finisher = save_game_state(st.finisher)]
    ELSE st

\* variant of combo_fill_rate: the base rate at every combo
combo_fill_rate_flat(c) == fill_base

\* add_combo: the fill rate for combo["current"] = c
combo_fill_rate(c) ==
    IF c >= combo_high_threshold THEN fill_high
    ELSE IF c >= combo_medium_threshold THEN fill_medium
    ELSE fill_base

\* add_combo: counter, finisher meter, combo achievements
add_combo(st) ==
    LET c    == st.combo_current + 1
        fill == combo_fill_rate(c)
        m    == Min(MeterFull, st.finisher.meter + fill)
        fin1 == IF st.finisher.ready THEN st.finisher
                ELSE [st.finisher EXCEPT !.meter = m,
                                         !.ready = (m >= MeterFull)]
        st1  == [st EXCEPT !.combo_current = c, !.finisher = fin1]
        st2  == check_achievement(st1, "combo_5", c >= combo_milestone_thresholds[1])
    IN check_achievement(st2, "combo_10", c >= combo_milestone_thresholds[2])

\* handle_asteroid_hit (asteroid that is no boss): add_combo, an enemy may
\* spawn, check_achievement("first_blood") with the score now positive
handle_asteroid_hit(st, spawn) ==
    LET st1  == add_combo(st)
        free == EnemyIds \ st1.enemies
        st2  == IF spawn /\ Cardinality(st1.enemies) < enemy_max_count
                THEN [st1 EXCEPT !.enemies =
                         st1.enemies \cup {CHOOSE e \in free : \A f \in free : e <= f}]
                ELSE st1
    IN check_achievement(st2, "first_blood", TRUE)

\* handle_enemy_hit, the hit that takes the enemy's last health
handle_enemy_hit(st, e) ==
    add_combo([st EXCEPT !.enemies = st.enemies \ {e}])

\* start_finisher_execution(target)
start_finisher_execution(fin, target) ==
    [fin EXCEPT !.executing = TRUE,
                !.phase = LOCK_ON,
                !.execution_timer = finisher_lock_on_time,
                !.target = target]

\* variant of CanStartFinisher: the executing flag is not consulted
CanStartFinisherAnyTime(fin, enemies) == fin.ready /\ enemies # {}

\* handle_dash_input: finisher["ready"] and not finisher["executing"] and g_enemies
CanStartFinisher(fin, enemies) == fin.ready /\ ~fin.executing /\ enemies # {}

\* variant of PhaseAfter: LockOn goes straight to Impact
PhaseAfterSkipping(p) ==
    CASE p = LOCK_ON -> IMPACT
      [] p = PRE_IMPACT -> IMPACT
      [] p = IMPACT -> POST_IMPACT
      [] p = POST_IMPACT -> IDLE
      [] OTHER -> p

\* the phase update_finisher assigns when the timer of phase p has run out;
\* a phase that is no FinisherPhase member matches no branch
PhaseAfter(p) ==
    CASE p = LOCK_ON -> PRE_IMPACT
      [] p = PRE_IMPACT -> IMPACT
      [] p = IMPACT -> POST_IMPACT
      [] p = POST_IMPACT -> IDLE
      [] OTHER -> p

\* the execution_timer update_finisher assigns on entering phase p
PhaseTime(p) ==
    CASE p = PRE_IMPACT -> finisher_pre_impact_time
      [] p = IMPACT -> finisher_impact_time
      [] p = POST_IMPACT -> finisher_post_impact_time
      [] OTHER -> 0

\* variant of RestoredTimeScale: the slow motion is kept after the impact
RestoredTimeScaleSlow == finisher_time_scale

\* g_game_state["time_scale"] = 1.0 on leaving Impact
RestoredTimeScale == NormalTimeScale

\* finisher_state["shockwave_radius"] is kept in units of 1 / finisher_impact_time
\* of a scaled pixel, so that the radius of each tick is a whole number
shockwave_seed == 10               \* 10 * g_scale_factor
finisher_shockwave_radius == 200   \* Cfg.finisher_shockwave_radius
finisher_score == 500              \* Cfg.finisher_score

\* 10 * g_scale_factor + (max_radius - 10 * g_scale_factor) * progress, with
\* progress = 1.0 - execution_timer / finisher_impact_time
ShockwaveRadiusAt(t) ==
    shockwave_seed * finisher_impact_time
        + (finisher_shockwave_radius - shockwave_seed) * (finisher_impact_time - t)

\* percent of the Impact phase at which the shockwave deals damage, and the
\* width of the window behind each point (damage_points, dmg_point + 0.02)
damage_points == {30, 60}
damage_window == 2

\* apply_shockwave_damage: every enemy inside the radius takes one hit; the
\* enemies alive are taken to be inside it
apply_shockwave_damage(st) ==
    [st EXCEPT !.shockwave_hits =
        [e \in EnemyIds |-> IF e \in st.enemies THEN st.shockwave_hits[e] + 1
                            ELSE st.shockwave_hits[e]]]

\* for dmg_point in damage_points: if dmg_point <= progress < dmg_point + 0.02,
\* with progress = 1.0 - execution_timer / finisher_impact_time
RECURSIVE ApplyDamagePoints(_, _, _)
ApplyDamagePoints(st, t, points) ==
    IF points = {} THEN st
    ELSE LET p   == CHOOSE q \in points : \A r \in points : q <= r
             run == 100 * (finisher_impact_time - t)
             hit == /\ p * finisher_impact_time <= run
                    /\ run < (p + damage_window) * finisher_impact_time
         IN ApplyDamagePoints(IF hit THEN apply_shockwave_damage(st) ELSE st,
                              t, points \ {p})

\* variant of TargetStillPresent: the bonus is given without the test
TargetStillPresentAlways(target, enemies) == TRUE

\* if target and target in g_enemies
TargetStillPresent(target, enemies) == target # NoTarget /\ target \in enemies

\* variant of PhaseBranchesRun: the phase branches run on every call
PhaseBranchesRunEveryCall(t) == TRUE

\* if finisher_state["execution_timer"] <= 0: the phase branches run
PhaseBranchesRun(t) == t <= 0

\* update_finisher: st is [finisher, time_scale, ship, dash_cooldown, enemies,
\* shockwave_hits]. Every phase branch sits under "if execution_timer <= 0",
\* so the Impact branch runs with progress 1.0 only.
update_finisher(st) ==
    IF ~st.finisher.executing THEN st
    ELSE
      LET fin == st.finisher
          t   == fin.execution_timer - 1
          nxt == PhaseAfter(fin.phase)
      IN IF ~PhaseBranchesRun(t) THEN [st EXCEPT !.finisher.execution_timer = t]
         ELSE CASE fin.phase = LOCK_ON ->
                     [st EXCEPT !.finisher.phase = nxt,
                                !.finisher.execution_timer = PhaseTime(nxt),
                                !.finisher.meter = 0,
                                !.finisher.ready = FALSE,
                                !.ship.dashing =
                                    (finisher_pre_impact_time + finisher_impact_time
                                       + finisher_post_impact_time) * TickTenths]
                [] fin.phase = PRE_IMPACT ->
                     LET alive == TargetStillPresent(fin.target, st.enemies)
                     IN [st EXCEPT !.finisher.phase = nxt,
                                   !.finisher.execution_timer = PhaseTime(nxt),
                                   !.time_scale = finisher_time_scale,
                                   !.finisher.shockwave_radius =
                                       IF alive THEN shockwave_seed * finisher_impact_time
                                       ELSE @,
                                   !.dash_cooldown = IF alive THEN 0 ELSE st.dash_cooldown,
                                   !.bonus.score = IF alive THEN @ + finisher_score ELSE @,
                                   !.bonus.crystals = IF alive THEN @ + 1 ELSE @,
                                   !.enemies = IF alive THEN st.enemies \ {fin.target}
                                               ELSE st.enemies]
                [] fin.phase = IMPACT ->
                     LET st1 == ApplyDamagePoints(
                                    [st EXCEPT !.finisher.execution_timer = t,
                                               !.finisher.shockwave_radius =
                                                   ShockwaveRadiusAt(t)],
                                    t, damage_points)
                     IN IF t <= 1
                        THEN [st1 EXCEPT !.finisher.phase = nxt,
                                         !.finisher.execution_timer = PhaseTime(nxt),
                                         !.time_scale = RestoredTimeScale]
                        ELSE st1
                [] fin.phase = POST_IMPACT ->
                     [st EXCEPT !.finisher.phase = nxt,
                                !.finisher.execution_timer = t,
                                !.finisher.executing = FALSE,
                                !.finisher.target = NoTarget,
                                !.finisher.shockwave_radius = 0,
                                !.ship.dashing = 0]
                [] OTHER -> [st EXCEPT !.finisher.execution_timer = t]

\* update_ship_timers: ship is g_ship, cd is g_game_state["dash"]["cooldown"]
update_ship_timers(ship, cd, ts) ==
    [ship |-> [ship EXCEPT !.invulnerable = update_timer(ship.invulnerable, 1, ts)],
     dash_cooldown |-> update_timer(cd, 1, ts)]

\* update_ship, which ends with its own call of update_ship_timers
update_ship(ship, cd, executing, ts) ==
    IF ship.respawning > 0
    THEN [ship |-> [ship EXCEPT !.respawning = ship.respawning - TickTenths],
          dash_cooldown |-> cd]
    ELSE LET d  == IF ship.dashing > 0
                   THEN (IF executing THEN ship.dashing - TickTenths
                         ELSE update_timer(ship.dashing, 1, ts))
                   ELSE ship.dashing
             s1 == IF ship.dashing > 0
                   THEN [ship EXCEPT !.dashing = d,
                                     !.invulnerable = Max(ship.invulnerable, d)]
                   ELSE ship
         IN update_ship_timers(s1, cd, ts)

\* variant of TickOrder: the physics step ahead of the ship update
TickOrderSwapped ==
    <<"update_physics_only", "update_ship", "handle_collisions", "update_finisher",
      "update_ship_timers">>

\* the calls of the loop body of update_game_state, in program order
TickOrder ==
    <<"update_ship", "update_physics_only", "handle_collisions", "update_finisher",
      "update_ship_timers">>

PosOf(name) == CHOOSE i \in 1 .. Len(TickOrder) : TickOrder[i] = name

After(name) == TickOrder[(PosOf(name) % Len(TickOrder)) + 1]

\* variant of DashAllowed: the cooldown is not looked at
DashAllowedAnyCooldown(cd, ship) == ship.respawning = 0 /\ ship.dashing = 0

\* handle_dash_input: dash cooldown <= 0 and g_ship.respawning == 0 and
\* g_ship.dashing == 0
DashAllowed(cd, ship) == cd <= 0 /\ ship.respawning = 0 /\ ship.dashing = 0

histVars == <<visited, locked_target, finisher_calls, started_while_executing,
              shockwave_hits, finisher_bonus>>

\* handle_input: handle_dash_input on a fresh press of the dash control;
\* target is what check_finisher_collision returns (NoTarget for None)
DashInput(target) ==
    /\ pc = TickOrder[1]
    /\ IF DashAllowed(dash_cooldown, g_ship)
       THEN IF CanStartFinisher(finisher, g_enemies) /\ target # NoTarget
            THEN /\ finisher' = start_finisher_execution(finisher, target)
                 /\ g_ship' = [g_ship EXCEPT !.invulnerable =
                       Max(g_ship.invulnerable,
                           (finisher_lock_on_time + finisher_pre_impact_time
                              + finisher_impact_time + finisher_post_impact_time
                              + finisher_invuln_buffer_ticks) * TickTenths)]
                 /\ time_scale' = finisher_lock_on_scale
                 /\ visited' = <<PhaseValue(LOCK_ON)>>
                 /\ locked_target' = target
                 /\ finisher_calls' = 0
                 /\ started_while_executing' =
                       (started_while_executing \/ finisher.executing)
                 /\ shockwave_hits' = [e \in EnemyIds |-> 0]
                 /\ finisher_bonus' = [score |-> 0, crystals |-> 0]
                 /\ UNCHANGED dash_cooldown
            ELSE \* execute_normal_dash
                 /\ g_ship' = [g_ship EXCEPT !.dashing = dash_duration]
                 /\ dash_cooldown' = dash_cooldown_time
                 /\ UNCHANGED <<finisher, time_scale, histVars>>
       ELSE UNCHANGED <<finisher, time_scale, g_ship, dash_cooldown, histVars>>
    /\ UNCHANGED <<pc, g_enemies, combo_current, achievements_unlocked>>

TickUpdateShip ==
    /\ pc = "update_ship"
    /\ finisher.execution_timer > 0 - MaxOverrun
    /\ LET r == update_ship(g_ship, dash_cooldown, finisher.executing, time_scale)
       IN /\ g_ship' = r.ship
          /\ dash_cooldown' = r.dash_cooldown
    /\ pc' = After("update_ship")
    /\ UNCHANGED <<finisher, time_scale, g_enemies, combo_current, achievements_unlocked,
                   histVars>>

\* update_physics_only moves the entities; their positions are not part of
\* the combat state
TickPhysicsOnly ==
    /\ pc = "update_physics_only"
    /\ pc' = After("update_physics_only")
    /\ UNCHANGED <<finisher, time_scale, g_ship, dash_cooldown, g_enemies, combo_current,
                   achievements_unlocked, histVars>>

\* handle_collisions: kill is "none", "asteroid" (a player bullet destroys or
\* splits an asteroid) or "enemy" (a player bullet destroys enemy e)
TickHandleCollisions(kill, e, spawn) ==
    /\ pc = "handle_collisions"
    /\ kill # "none" => combo_current < MaxCombo
    /\ kill = "enemy" => e \in g_enemies
    /\ LET st == [finisher |-> finisher, combo_current |-> combo_current,
                  achievements |-> achievements_unlocked, enemies |-> g_enemies]
           r  == IF kill = "none" THEN st
                 ELSE IF kill = "asteroid" THEN handle_asteroid_hit(st, spawn)
                 ELSE handle_enemy_hit(st, e)
       IN /\ finisher' = r.finisher
          /\ combo_current' = r.combo_current
          /\ achievements_unlocked' = r.achievements
          /\ g_enemies' = r.enemies
    /\ pc' = After("handle_collisions")
    /\ UNCHANGED <<time_scale, g_ship, dash_cooldown, histVars>>

TickUpdateFinisher ==
    /\ pc = "update_finisher"
    /\ LET st == [finisher |-> finisher, time_scale |-> time_scale, ship |-> g_ship,
                  dash_cooldown |-> dash_cooldown, enemies |-> g_enemies,
                  shockwave_hits |-> shockwave_hits, bonus |-> finisher_bonus]
           r  == update_finisher(st)
       IN /\ finisher' = r.finisher
          /\ time_scale' = r.time_scale
          /\ g_ship' = r.ship
          /\ dash_cooldown' = r.dash_cooldown
          /\ g_enemies' = r.enemies
          /\ shockwave_hits' = r.shockwave_hits
          /\ finisher_bonus' = r.bonus
          /\ visited' = IF PhaseValue(r.finisher.phase) # PhaseValue(finisher.phase)
                        THEN Append(visited, PhaseValue(r.finisher.phase))
                        ELSE visited
          /\ finisher_calls' = IF finisher.executing THEN finisher_calls + 1
                               ELSE finisher_calls
    /\ pc' = After("update_finisher")
    /\ UNCHANGED <<combo_current, achievements_unlocked, locked_target,
                   started_while_executing>>

TickUpdateShipTimers ==
    /\ pc = "update_ship_timers"
    /\ LET r == update_ship_timers(g_ship, dash_cooldown, time_scale)
       IN /\ g_ship' = r.ship
          /\ dash_cooldown' = r.dash_cooldown
    /\ pc' = After("update_ship_timers")
    /\ UNCHANGED <<finisher, time_scale, g_enemies, combo_current, achievements_unlocked,
                   histVars>>

\* main: load_game_state finds no save file, reset_game, reset_ship
InitGame ==
    /\ pc = TickOrder[1]
    /\ finisher = [phase |-> IDLE, executing |-> FALSE, execution_timer |-> 0,
                   shockwave_radius |-> 0,
                   target |-> NoTarget, meter |-> 0, ready |-> FALSE]
    /\ time_scale = NormalTimeScale
    /\ g_ship = [dashing |-> 0, invulnerable |-> ship_invulnerability_time,
                 respawning |-> ship_respawn_duration]
    /\ dash_cooldown = 0
    /\ g_enemies = {}
    /\ combo_current = 0
    /\ achievements_unlocked = {}
    /\ visited = <<>>
    /\ locked_target = NoTarget
    /\ finisher_calls = 0
    /\ started_while_executing = FALSE
    /\ shockwave_hits = [e \in EnemyIds |-> 0]
    /\ finisher_bonus = [score |-> 0, crystals |-> 0]

(***************************************************************************)
(* update_game_state statement by statement: the frame delta, the loop     *)
(* test, the five calls of the loop body with their level_transition       *)
(* conditions, and the code after the loop. No finisher is in flight       *)
(* (time_scale 1.0).                                                       *)
(***************************************************************************)
\* store_previous_positions: asteroid.prev_x = asteroid.x
store_previous_positions(x) == x

\* the frame delta; if Cfg.enable_interpolation: store_previous_positions()
FrameStart(ms) ==
    /\ loop_pc = "frame"
    /\ frame_dt' = ClampDt(ms)
    /\ physics_accumulator' = physics_accumulator + ClampDt(ms)
    /\ physics_updates' = 0
    /\ loop_pc' = "while"
    /\ frame_calls' = <<>>
    /\ asteroid_prev_x' = store_previous_positions(asteroid_x)
    /\ UNCHANGED <<render_alpha, frame_ran, update_timers, calls, asteroid_x,
                   level_transition, field_clear, grid_ops>>

\* while physics_accumulator >= PHYSICS_DT and physics_updates < 4
LoopTest ==
    /\ loop_pc = "while"
    /\ IF physics_accumulator >= PHYSICS_DT /\ physics_updates < MaxPhysicsUpdates
       THEN loop_pc' = TickOrder[1] /\ calls' = <<>> /\ grid_ops' = <<>>
       ELSE loop_pc' = "after" /\ calls' = calls /\ grid_ops' = grid_ops
    /\ UNCHANGED <<schedVars, frame_dt, frame_calls, asteroid_x, asteroid_prev_x,
                   level_transition, field_clear>>

\* if level_transition == 0: update_ship(keys, controller_input)
CallUpdateShip ==
    /\ loop_pc = "update_ship"
    /\ calls' = IF level_transition = 0 THEN Append(calls, "update_ship") ELSE calls
    /\ loop_pc' = After("update_ship")
    /\ UNCHANGED <<schedVars, frame_dt, frame_calls, asteroid_x, asteroid_prev_x,
                   level_transition, field_clear, grid_ops>>

\* update_physics_only(Cfg.PHYSICS_DT): the asteroid moves by its velocity vx
CallUpdatePhysicsOnly(vx) ==
    /\ loop_pc = "update_physics_only"
    /\ calls' = Append(calls, "update_physics_only")
    /\ asteroid_x' = wrap_position(asteroid_x + vx)
    /\ loop_pc' = After("update_physics_only")
    /\ UNCHANGED <<schedVars, frame_dt, frame_calls, asteroid_prev_x, level_transition,
                   field_clear, grid_ops>>

\* the operations handle_collisions makes on g_spatial_grid, in program
\* order: handle_bullet_collisions clears the grid and inserts the asteroids,
\* enemies and enemy bullets, then asks it once for each player bullet; the
\* three ship handlers ask it once each when the ship is vulnerable
GridOpsOfCollisions(shots, vulnerable) ==
    <<"clear", "insert">> \o [i \in 1 .. shots |-> "query"]
        \o (IF vulnerable THEN <<"query", "query", "query">> ELSE <<>>)

\* if level_transition == 0: handle_collisions(); cleared: a player bullet
\* destroys the last asteroid; shots: the player bullets in flight
CallHandleCollisions(cleared, shots, vulnerable) ==
    /\ loop_pc = "handle_collisions"
    /\ grid_ops' = IF level_transition = 0 THEN GridOpsOfCollisions(shots, vulnerable)
                   ELSE grid_ops
    /\ calls' = IF level_transition = 0 THEN Append(calls, "handle_collisions") ELSE calls
    /\ field_clear' = (field_clear \/ (level_transition = 0 /\ cleared))
    /\ loop_pc' = After("handle_collisions")
    /\ UNCHANGED <<schedVars, frame_dt, frame_calls, asteroid_x, asteroid_prev_x,
                   level_transition>>

\* update_finisher()
CallUpdateFinisher ==
    /\ loop_pc = "update_finisher"
    /\ calls' = Append(calls, "update_finisher")
    /\ loop_pc' = After("update_finisher")
    /\ UNCHANGED <<schedVars, frame_dt, frame_calls, asteroid_x, asteroid_prev_x,
                   level_transition, field_clear, grid_ops>>

\* update_dash_trail(); update_ship_timers(); the accumulator gives up one
\* PHYSICS_DT; physics_updates += 1
CallUpdateShipTimers ==
    /\ loop_pc = "update_ship_timers"
    /\ calls' = Append(calls, "update_ship_timers")
    /\ physics_accumulator' = physics_accumulator - PHYSICS_DT
    /\ physics_updates' = physics_updates + 1
    /\ frame_calls' = Append(frame_calls, "tick")
    /\ loop_pc' = "while"
    /\ UNCHANGED <<render_alpha, frame_ran, update_timers, frame_dt, asteroid_x,
                   asteroid_prev_x, level_transition, field_clear, grid_ops>>

\* handle_level_completion: the countdown of the level transition, then
\* start_new_level, which fills the field again
handle_level_completion(lt, clear) ==
    LET lt1 == IF clear /\ lt = 0 THEN level_transition_duration ELSE lt
        lt2 == IF lt1 > 0 THEN update_timer(lt1, 1, NormalTimeScale) ELSE lt1
    IN [level_transition |-> lt2,
        field_clear |-> IF lt1 > 0 /\ lt2 = 0 THEN FALSE ELSE clear]

\* variant of SubRateOrder: particles ahead of the AI
SubRateOrderSwapped == <<"particles", "ai", "ui", "effects">>

\* update_decoupled_systems: the four timers in program order
SubRateOrder == <<"ai", "particles", "ui", "effects">>

\* Cfg.update_intervals[k]
update_intervals(k) ==
    CASE k = "ai" -> IntervalAi
      [] k = "particles" -> IntervalParticles
      [] k = "ui" -> IntervalUi
      [] OTHER -> IntervalEffects

\* the update calls update_decoupled_systems(dt) makes, in call order: for
\* each timer in turn, one call per pending step
RECURSIVE DecoupledCalls(_, _, _)
DecoupledCalls(timers, dt, n) ==
    IF n > Len(SubRateOrder) THEN <<>>
    ELSE LET k    == SubRateOrder[n]
             runs == DrainTimer(timers[k] + dt, update_intervals(k), 0)[2]
         IN [i \in 1 .. runs |-> k] \o DecoupledCalls(timers, dt, n + 1)

\* after the loop: render_alpha, update_decoupled_systems(dt),
\* handle_level_completion()
FrameEnd ==
    /\ loop_pc = "after"
    /\ render_alpha' = physics_accumulator
    /\ frame_ran' = TRUE
    /\ update_timers' =
          [ai |-> DrainTimer(update_timers.ai + frame_dt, IntervalAi, 0)[1],
           particles |-> DrainTimer(update_timers.particles + frame_dt, IntervalParticles, 0)[1],
           ui |-> DrainTimer(update_timers.ui + frame_dt, IntervalUi, 0)[1],
           effects |-> DrainTimer(update_timers.effects + frame_dt, IntervalEffects, 0)[1]]
    /\ LET r == handle_level_completion(level_transition, field_clear)
       IN /\ level_transition' = r.level_transition
          /\ field_clear' = r.field_clear
    /\ frame_calls' = frame_calls \o DecoupledCalls(update_timers, frame_dt, 1)
    /\ loop_pc' = "frame"
    /\ UNCHANGED <<physics_accumulator, physics_updates, frame_dt, calls, asteroid_x,
                   asteroid_prev_x, grid_ops>>

InitFlow ==
    /\ loop_pc = "frame"
    /\ frame_dt = 0
    /\ calls = <<>>
    /\ frame_calls = <<>>
    /\ asteroid_x = asteroid_spawn_margin
    /\ asteroid_prev_x = asteroid_spawn_margin
    /\ level_transition = 0
    /\ field_clear = FALSE
    /\ grid_ops = <<>>

(***************************************************************************)
(* Specifications                                                          *)
(***************************************************************************)
(***************************************************************************)
(* One pass of handle_bullet_collisions over the player bullets, with the  *)
(* hit handlers and the deferred removals. Positions are cells; the field  *)
(* is set up object by object, one pass runs over it, and a new game       *)
(* starts.                                                                 *)
(***************************************************************************)
asteroid_split_count == 2
asteroid_max_size == 3
enemy_health == 3
\* where the objects of a pass are: two cells, so that objects are in contact
\* (same cell) or apart
FieldCells == {0, 1}

\* variant of SplitChildren: one child more than asteroid_split_count
SplitChildrenThree(a) ==
    [k \in 1 .. asteroid_split_count + 1 |->
        [x |-> a.x, size |-> a.size - 1, is_boss |-> FALSE, health |-> 1]]

\* handle_asteroid_hit: for _ in range(Cfg.asteroid_split_count):
\*     create_asteroid(asteroid.x, asteroid.y, asteroid.size - 1)
SplitChildren(a) ==
    [k \in 1 .. asteroid_split_count |->
        [x |-> a.x, size |-> a.size - 1, is_boss |-> FALSE, health |-> 1]]

\* variant of AlreadyRemoved: the removal set is not consulted
AlreadyRemovedNever(j, to_remove) == FALSE

\* "if j not in asteroids_to_remove" / "if j not in enemies_to_remove"
AlreadyRemoved(j, to_remove) == j \in to_remove

\* variant of HitTargets: the scan of a bullet goes on after a hit
HitTargetsAll(colliding) == colliding

\* the scan of a bullet ends with "break" at the first object in contact
HitTargets(colliding) == IF colliding = <<>> THEN <<>> ELSE <<Head(colliding)>>

\* g_spatial_grid.get_nearby_objects(bullet): the asteroids and enemies of
\* the grid, in the order of the cells around the bullet
NearbyObjects(as, es, enemy_first) ==
    LET aobjs == [j \in 1 .. Len(as) |-> [kind |-> "asteroid", index |-> j]]
        eobjs == [k \in 1 .. Len(es) |-> [kind |-> "enemy", index |-> k]]
    IN IF enemy_first THEN eobjs \o aobjs ELSE aobjs \o eobjs

\* handle_asteroid_hit(obj, j, asteroids_to_remove, asteroids_to_add) for
\* bullet i; acc holds the lists and the removal sets of the pass
PassAsteroidHit(acc, i, j, damage) ==
    LET a == acc.asteroids[j]
    IN IF a.is_boss
       THEN LET h == a.health - Max(1, damage)
            IN [acc EXCEPT
                  !.asteroids[j].health = h,
                  !.asteroids_to_remove = IF h <= 0 THEN @ \cup {j} ELSE @,
                  !.log = Append(@, [bullet |-> i, kind |-> "asteroid", index |-> j,
                                     award |-> (h <= 0)])]
       ELSE [acc EXCEPT
               !.asteroids_to_remove = @ \cup {j},
               !.asteroids_to_add = IF a.size > 1 THEN @ \o SplitChildren(a) ELSE @,
               !.log = Append(@, [bullet |-> i, kind |-> "asteroid", index |-> j,
                                  award |-> TRUE])]

\* handle_enemy_hit(obj, j, enemies_to_remove) for bullet i
PassEnemyHit(acc, i, j, damage) ==
    LET h == acc.enemies[j].health - Max(1, damage)
    IN [acc EXCEPT
          !.enemies[j].health = h,
          !.enemies_to_remove = IF h <= 0 THEN @ \cup {j} ELSE @,
          !.log = Append(@, [bullet |-> i, kind |-> "enemy", index |-> j,
                             award |-> (h <= 0)])]

\* the body of "if check_collision(bullet, obj, ...)" for each target of
\* bullet i: the bullet is marked, the handler runs unless the object is
\* already marked for removal
RECURSIVE HitObjects(_, _, _, _)
HitObjects(acc, i, targets, damage) ==
    IF targets = <<>> THEN acc
    ELSE LET o    == Head(targets)
             acc1 == [acc EXCEPT !.bullets_to_remove = @ \cup {i},
                                 !.contacts = Append(@, [bullet |-> i, kind |-> o.kind,
                                                         index |-> o.index])]
             acc2 == IF o.kind = "asteroid"
                     THEN IF AlreadyRemoved(o.index, acc1.asteroids_to_remove) THEN acc1
                          ELSE PassAsteroidHit(acc1, i, o.index, damage)
                     ELSE IF AlreadyRemoved(o.index, acc1.enemies_to_remove) THEN acc1
                          ELSE PassEnemyHit(acc1, i, o.index, damage)
         IN HitObjects(acc2, i, Tail(targets), damage)

\* for i, bullet in enumerate(g_bullets): ...
RECURSIVE ScanBullets(_, _, _, _, _)
ScanBullets(acc, bs, i, enemy_first, damage) ==
    IF i > Len(bs) THEN acc
    ELSE LET colliding ==
                 SelectSeq(NearbyObjects(acc.asteroids, acc.enemies, enemy_first),
                           LAMBDA o : IF o.kind = "asteroid"
                                      THEN check_collision(bs[i].x, acc.asteroids[o.index].x)
                                      ELSE check_collision(bs[i].x, acc.enemies[o.index].x))
         IN ScanBullets(HitObjects(acc, i, HitTargets(colliding), damage),
                        bs, i + 1, enemy_first, damage)

\* the list comprehensions that apply the removals
KeepUnmarked(s, marked) ==
    LET F[n \in 0 .. Len(s)] ==
            IF n = 0 THEN <<>>
            ELSE IF n \in marked THEN F[n - 1] ELSE Append(F[n - 1], s[n])
    IN F[Len(s)]

\* handle_bullet_collisions as a whole
BulletCollisionPass(bs, as, es, enemy_first, damage) ==
    LET acc0 == [asteroids |-> as, enemies |-> es,
                 bullets_to_remove |-> {}, asteroids_to_remove |-> {},
                 asteroids_to_add |-> <<>>, enemies_to_remove |-> {},
                 log |-> <<>>, contacts |-> <<>>]
        acc  == ScanBullets(acc0, bs, 1, enemy_first, damage)
    IN [bullets |-> KeepUnmarked(bs, acc.bullets_to_remove),
        asteroids |-> KeepUnmarked(acc.asteroids, acc.asteroids_to_remove)
                         \o acc.asteroids_to_add,
        enemies |-> KeepUnmarked(acc.enemies, acc.enemies_to_remove),
        acc |-> acc]

\* get_damage_multiplier(): 1.0 without the damage upgrade, more with it
DamageMultipliers == {1, 2}

\* the record of a pass before any pass has run
NoPassBefore == [bullets |-> <<>>, asteroids |-> <<>>, enemies |-> <<>>]

NoPassResult ==
    [asteroids |-> <<>>, enemies |-> <<>>,
     bullets_to_remove |-> {}, asteroids_to_remove |-> {},
     asteroids_to_add |-> <<>>, enemies_to_remove |-> {},
     log |-> <<>>, contacts |-> <<>>]

\* the field has changed since the last pass: its record is dropped
ForgetPass ==
    /\ pass_before' = NoPassBefore
    /\ pass_result' = NoPassResult
    /\ pass_ran' = FALSE

\* shoot_bullet: a player bullet has reached cell x
PlaceBullet(x) ==
    /\ ~pass_ran
    /\ Len(field_bullets) < MaxFieldBullets
    /\ field_bullets' = Append(field_bullets, [x |-> x])
    /\ ForgetPass
    /\ UNCHANGED <<field_asteroids, field_enemies>>

\* start_new_level / create_asteroid: an asteroid of the level, or its boss
\* (create_asteroid(is_boss=True) has the default size)
PlaceAsteroid(x, size, boss) ==
    /\ ~pass_ran
    /\ Len(field_asteroids) < MaxFieldAsteroids
    /\ boss => size = asteroid_max_size
    /\ field_asteroids' =
          Append(field_asteroids,
                 [x |-> x, size |-> size, is_boss |-> boss,
                  health |-> IF boss THEN MaxBossHealth ELSE 1])
    /\ ForgetPass
    /\ UNCHANGED <<field_bullets, field_enemies>>

\* create_enemy: an enemy has come to cell x
PlaceEnemy(x) ==
    /\ ~pass_ran
    /\ Len(field_enemies) < enemy_max_count
    /\ field_enemies' = Append(field_enemies, [x |-> x, health |-> enemy_health])
    /\ ForgetPass
    /\ UNCHANGED <<field_bullets, field_asteroids>>

\* handle_collisions: handle_bullet_collisions()
RunBulletCollisions(enemy_first, damage) ==
    LET r == BulletCollisionPass(field_bullets, field_asteroids, field_enemies,
                                 enemy_first, damage)
    IN /\ ~pass_ran
       /\ field_bullets # <<>>
       /\ field_bullets' = r.bullets
       /\ field_asteroids' = r.asteroids
       /\ field_enemies' = r.enemies
       /\ pass_before' = [bullets |-> field_bullets, asteroids |-> field_asteroids,
                          enemies |-> field_enemies]
       /\ pass_result' = r.acc
       /\ pass_ran' = TRUE

\* reset_game: new lists for a new game; its asteroids come by PlaceAsteroid
ResetField ==
    /\ pass_ran
    /\ field_bullets' = <<>>
    /\ field_asteroids' = <<>>
    /\ field_enemies' = <<>>
    /\ ForgetPass

InitField ==
    /\ field_bullets = <<>>
    /\ field_asteroids = <<>>
    /\ field_enemies = <<>>
    /\ pass_before = NoPassBefore
    /\ pass_result = NoPassResult
    /\ pass_ran = FALSE

(***************************************************************************)
(* update_game_state frames with the runs of the sub-rate updates counted  *)
(***************************************************************************)
\* update_game_state, with update_decoupled_systems(dt) counting its calls
\* of update_ai_systems, update_complex_particles, update_ui_systems and
\* update_visual_effects_complex
CountedFrame(ms) ==
    LET dt == ClampDt(ms)
    IN /\ total_dt + dt <= MaxElapsed
       /\ UpdateGameStateFrame(ms, 0)
       /\ total_dt' = total_dt + dt
       /\ update_runs' =
             [ai |-> update_runs.ai
                       + DrainTimer(update_timers.ai + dt, IntervalAi, 0)[2],
              particles |-> update_runs.particles
                       + DrainTimer(update_timers.particles + dt, IntervalParticles, 0)[2],
              ui |-> update_runs.ui
                       + DrainTimer(update_timers.ui + dt, IntervalUi, 0)[2],
              effects |-> update_runs.effects
                       + DrainTimer(update_timers.effects + dt, IntervalEffects, 0)[2]]

InitRates ==
    /\ total_dt = 0
    /\ update_runs = [ai |-> 0, particles |-> 0, ui |-> 0, effects |-> 0]

(***************************************************************************)
(* The ship against asteroids, enemies and enemy bullets:                  *)
(* handle_ship_collisions_if_vulnerable and handle_ship_damage, tick by    *)
(* tick. Positions are cells; the hazards stay where they are placed.      *)
(***************************************************************************)
ShipCentre == 0                  \* g_screen_width // 2
StartLives == 3                  \* "lives": 3

\* is_ship_vulnerable
is_ship_vulnerable(ship) == ship.invulnerable = 0 /\ ship.dashing = 0

\* variant of reset_ship: the ship stays where it was hit
reset_ship_in_place(ship) ==
    [ship EXCEPT !.invulnerable = ship_invulnerability_time,
                 !.respawning = ship_respawn_duration,
                 !.dashing = 0]

\* reset_ship
reset_ship(ship) ==
    [ship EXCEPT !.x = ShipCentre,
                 !.invulnerable = ship_invulnerability_time,
                 !.respawning = ship_respawn_duration,
                 !.dashing = 0]

\* handle_ship_damage; st is [ship, lives, game_over, damage], the result
\* carries the return value; damage.guarded counts the calls made while
\* is_ship_vulnerable() does not hold
handle_ship_damage(st0) ==
    LET st == IF is_ship_vulnerable(st0.ship) THEN st0
              ELSE [st0 EXCEPT !.damage.guarded = @ + 1]
    IN
    IF st.ship.shield_active > 0
    THEN [st |-> [st EXCEPT !.ship.shield_active = 0,
                            !.damage.shield = @ + 1],
          returned |-> FALSE]
    ELSE LET st1 == [st EXCEPT !.lives = @ - 1, !.damage.lives = @ + 1]
         IN IF st1.lives <= 0
            THEN [st |-> [st1 EXCEPT !.game_over = TRUE], returned |-> TRUE]
            ELSE [st |-> [st1 EXCEPT !.ship = reset_ship(st1.ship)], returned |-> TRUE]

\* handle_ship_asteroid_collisions: the loop over the nearby asteroids from
\* the j-th on
RECURSIVE handle_ship_asteroid_collisions(_, _, _)
handle_ship_asteroid_collisions(st, as, j) ==
    IF j > Len(as) THEN st
    ELSE IF check_collision(st.ship.x, as[j])
         THEN LET r == handle_ship_damage(st)
              IN IF r.returned THEN r.st
                 ELSE handle_ship_asteroid_collisions(r.st, as, j + 1)
         ELSE handle_ship_asteroid_collisions(st, as, j + 1)

\* handle_ship_enemy_collisions and handle_ship_bullet_collisions: the loop
\* over the nearby objects from the j-th on; every object in contact is
\* marked for removal before handle_ship_damage is called
RECURSIVE ShipHitLoop(_, _, _, _)
ShipHitLoop(st, objs, j, marked) ==
    IF j > Len(objs) THEN [st |-> st, marked |-> marked]
    ELSE IF check_collision(st.ship.x, objs[j])
         THEN LET r == handle_ship_damage(st)
              IN IF r.returned THEN [st |-> r.st, marked |-> marked \cup {j}]
                 ELSE ShipHitLoop(r.st, objs, j + 1, marked \cup {j})
         ELSE ShipHitLoop(st, objs, j + 1, marked)

\* handle_ship_collisions_if_vulnerable: is_ship_vulnerable() is asked once,
\* ahead of the three categories
handle_ship_collisions_if_vulnerable(st, as, es, ebs) ==
    IF ~is_ship_vulnerable(st.ship)
    THEN [st |-> st, enemies |-> es, enemy_bullets |-> ebs]
    ELSE LET st1 == handle_ship_asteroid_collisions(st, as, 1)
             r2  == ShipHitLoop(st1, es, 1, {})
             r3  == ShipHitLoop(r2.st, ebs, 1, {})
         IN [st |-> r3.st,
             enemies |-> KeepUnmarked(es, r2.marked),
             enemy_bullets |-> KeepUnmarked(ebs, r3.marked)]

\* One physics tick: update_ship (the ship may move to cell x when it is
\* under control), handle_collisions, update_ship_timers
ShipTick(x) ==
    LET moved == IF hz_ship.respawning > 0 THEN hz_ship ELSE [hz_ship EXCEPT !.x = x]
        s1    == update_ship(moved, 0, FALSE, NormalTimeScale).ship
        r     == handle_ship_collisions_if_vulnerable(
                     [ship |-> s1, lives |-> lives, game_over |-> game_over,
                      damage |-> [shield |-> 0, lives |-> 0, guarded |-> 0]],
                     hz_asteroids, hz_enemies, hz_enemy_bullets)
    IN /\ ~game_over
       /\ hz_ship' = update_ship_timers(r.st.ship, 0, NormalTimeScale).ship
       /\ lives' = r.st.lives
       /\ game_over' = r.st.game_over
       /\ hz_enemies' = r.enemies
       /\ hz_enemy_bullets' = r.enemy_bullets
       /\ tick_damage' = r.st.damage
       /\ UNCHANGED hz_asteroids

\* an asteroid has drifted to cell x
HazardAsteroid(x) ==
    /\ ~game_over
    /\ Len(hz_asteroids) < MaxHazards
    /\ hz_asteroids' = Append(hz_asteroids, x)
    /\ UNCHANGED <<hz_ship, lives, game_over, hz_enemies, hz_enemy_bullets, tick_damage>>

\* an enemy has come to cell x
HazardEnemy(x) ==
    /\ ~game_over
    /\ Len(hz_enemies) < MaxHazards
    /\ hz_enemies' = Append(hz_enemies, x)
    /\ UNCHANGED <<hz_ship, lives, game_over, hz_asteroids, hz_enemy_bullets, tick_damage>>

\* an enemy bullet has reached cell x
HazardEnemyBullet(x) ==
    /\ ~game_over
    /\ Len(hz_enemy_bullets) < MaxHazards
    /\ hz_enemy_bullets' = Append(hz_enemy_bullets, x)
    /\ UNCHANGED <<hz_ship, lives, game_over, hz_asteroids, hz_enemies, tick_damage>>

\* apply_powerup(PowerUpType.SHIELD); the countdown of the shield is left out
CollectShield ==
    /\ ~game_over
    /\ hz_ship' = [hz_ship EXCEPT !.shield_active = 1]
    /\ UNCHANGED <<lives, game_over, hz_asteroids, hz_enemies, hz_enemy_bullets,
                   tick_damage>>

\* reset_game, then reset_ship
InitShip ==
    /\ hz_ship = [x |-> ShipCentre, shield_active |-> 0,
                  invulnerable |-> ship_invulnerability_time,
                  respawning |-> ship_respawn_duration, dashing |-> 0]
    /\ lives = StartLives
    /\ game_over = FALSE
    /\ hz_asteroids = <<>>
    /\ hz_enemies = <<>>
    /\ hz_enemy_bullets = <<>>
    /\ tick_damage = [shield |-> 0, lives |-> 0, guarded |-> 0]

(***************************************************************************)
(* SpatialGrid: clear, insert and get_nearby_objects on a small grid.      *)
(* Entities are known by their identity; the ship is never inserted.       *)
(***************************************************************************)
cell_size == 2                   \* self.cell_size, in position units
GridCols == 4                    \* self.cols
GridRows == 4                    \* self.rows
GridXs == 0 .. GridCols * cell_size - 1
GridYs == {cy * cell_size : cy \in 0 .. GridRows - 1}
GridRadii == {0, 1}
EntityYs == {0, cell_size}       \* the rows the inserted entities are centred on
ShipId == 0
NoQuery == [obj |-> -1, x |-> 0, y |-> 0]
GridEntities == 1 .. MaxGridEntities
GridKeys == (0 .. GridCols - 1) \X (0 .. GridRows - 1)

\* SpatialGrid.clear; a key that is not in self.grid holds the empty list
SpatialGrid_clear == [key \in GridKeys |-> <<>>]

\* the cells insert visits, in the order of its two loops
RECURSIVE OverlappedCells(_, _, _, _, _)
OverlappedCells(cx, max_x, min_y, cy, max_y) ==
    IF cx > max_x THEN <<>>
    ELSE IF cy > max_y THEN OverlappedCells(cx + 1, max_x, min_y, min_y, max_y)
    ELSE <<(<<cx % GridCols, cy % GridRows>>)>>
             \o OverlappedCells(cx, max_x, min_y, cy + 1, max_y)

RECURSIVE AppendToCells(_, _, _, _)
AppendToCells(grid, e, cells, i) ==
    IF i > Len(cells) THEN grid
    ELSE AppendToCells([grid EXCEPT ![cells[i]] = Append(@, e)], e, cells, i + 1)

\* SpatialGrid.insert
SpatialGrid_insert(grid, e, x, y, radius) ==
    LET min_x == (x - radius) \div cell_size
        max_x == (x + radius) \div cell_size
        min_y == (y - radius) \div cell_size
        max_y == (y + radius) \div cell_size
    IN AppendToCells(grid, e, OverlappedCells(min_x, max_x, min_y, min_y, max_y), 1)

\* the keys get_nearby_objects visits: dx, then dy, over -1, 0, 1
BlockKeys(x, y) ==
    LET center_cx == x \div cell_size
        center_cy == y \div cell_size
    IN [n \in 1 .. 9 |->
           <<(center_cx + ((n - 1) \div 3) - 1) % GridCols,
             (center_cy + ((n - 1) % 3) - 1) % GridRows>>]

\* the entries of the visited cells, in the order of the visit
RECURSIVE BlockEntries(_, _, _)
BlockEntries(grid, keys, n) ==
    IF n > Len(keys) THEN <<>>
    ELSE grid[keys[n]] \o BlockEntries(grid, keys, n + 1)

\* variant of NotSeen: no seen_ids set
NotSeenAlways(e, seen) == TRUE

\* obj_id not in seen_ids
NotSeen(e, seen) == e \notin seen

\* the inner loop of get_nearby_objects over the entries from the i-th on
RECURSIVE CollectNearby(_, _, _, _, _)
CollectNearby(entries, i, obj, seen, nearby) ==
    IF i > Len(entries) THEN nearby
    ELSE IF NotSeen(entries[i], seen) /\ entries[i] # obj
         THEN CollectNearby(entries, i + 1, obj, seen \cup {entries[i]},
                            Append(nearby, entries[i]))
         ELSE CollectNearby(entries, i + 1, obj, seen, nearby)

\* SpatialGrid.get_nearby_objects
get_nearby_objects(grid, obj, x, y) ==
    CollectNearby(BlockEntries(grid, BlockKeys(x, y), 1), 1, obj, {}, <<>>)

\* g_spatial_grid.clear(), at the head of the next rebuild; one query is
\* followed between two rebuilds
GridClear ==
    /\ sg_grid' = SpatialGrid_clear
    /\ sg_inserted' = 0
    /\ sg_pos' = [e \in GridEntities |-> [x |-> 0, y |-> 0]]
    /\ sg_query' = NoQuery
    /\ sg_nearby' = <<>>

\* g_spatial_grid.insert(entity, radius) for the next entity of the rebuild
GridInsert(x, y, radius) ==
    /\ sg_query = NoQuery
    /\ sg_inserted < MaxGridEntities
    /\ sg_inserted' = sg_inserted + 1
    /\ sg_grid' = SpatialGrid_insert(sg_grid, sg_inserted + 1, x, y, radius)
    /\ sg_pos' = [sg_pos EXCEPT ![sg_inserted + 1] = [x |-> x, y |-> y]]
    /\ sg_query' = NoQuery
    /\ sg_nearby' = <<>>

\* g_spatial_grid.get_nearby_objects(g_ship, radius), the ship at (x, y)
GridQueryShip(x, y) ==
    /\ sg_query = NoQuery
    /\ sg_query' = [obj |-> ShipId, x |-> x, y |-> y]
    /\ sg_nearby' = get_nearby_objects(sg_grid, ShipId, x, y)
    /\ UNCHANGED <<sg_grid, sg_inserted, sg_pos>>

\* get_nearby_objects(e, radius) for an entity of the grid
GridQueryEntity(e) ==
    /\ sg_query = NoQuery
    /\ e <= sg_inserted
    /\ sg_query' = [obj |-> e, x |-> sg_pos[e].x, y |-> sg_pos[e].y]
    /\ sg_nearby' = get_nearby_objects(sg_grid, e, sg_pos[e].x, sg_pos[e].y)
    /\ UNCHANGED <<sg_grid, sg_inserted, sg_pos>>

\* SpatialGrid(...): an empty grid
InitGrid ==
    /\ sg_grid = SpatialGrid_clear
    /\ sg_inserted = 0
    /\ sg_pos = [e \in GridEntities |-> [x |-> 0, y |-> 0]]
    /\ sg_query = NoQuery
    /\ sg_nearby = <<>>

(***************************************************************************)
(* check_collision on positions and radii: the ship and one asteroid on a  *)
(* small wrap-around field.                                                *)
(***************************************************************************)
ship_radius == 2                 \* scaled(Cfg.ship_radius), in position units
AsteroidRadii == {1, 3}          \* obj_radius + margin of a small and a large asteroid

\* distance_squared
distance_squared(o1, o2) ==
    (o1.x - o2.x) * (o1.x - o2.x) + (o1.y - o2.y) * (o1.y - o2.y)

\* check_collision(obj1, obj2, r1, r2)
check_collision_radii(o1, o2, r1, r2) ==
    distance_squared(o1, o2) < (r1 + r2) * (r1 + r2)

\* update_ship has moved the ship to (x, y)
ShipAt(x, y) ==
    /\ cc_ship' = [x |-> x, y |-> y]
    /\ cc_checked' = FALSE
    /\ UNCHANGED <<cc_asteroid, cc_hit>>

\* update_asteroids has moved the asteroid to (x, y); radius is its size
AsteroidAt(x, y, radius) ==
    /\ cc_asteroid' = [x |-> x, y |-> y, radius |-> radius]
    /\ cc_checked' = FALSE
    /\ UNCHANGED <<cc_ship, cc_hit>>

\* the test of handle_ship_asteroid_collisions on the asteroid; the grid,
\* which can only withhold a candidate, is taken to hand the asteroid over
ShipAsteroidCheck ==
    /\ ~cc_checked
    /\ cc_hit' = check_collision_radii(cc_ship, cc_asteroid, ship_radius, cc_asteroid.radius)
    /\ cc_checked' = TRUE
    /\ UNCHANGED <<cc_ship, cc_asteroid>>

\* the ship at the centre, an asteroid at the corner
InitCollide ==
    /\ cc_ship = [x |-> FieldW \div 2, y |-> FieldH \div 2]
    /\ cc_asteroid = [x |-> 0, y |-> 0, radius |-> 1]
    /\ cc_hit = FALSE
    /\ cc_checked = FALSE

(***************************************************************************)
(* The finisher meter: filled by add_combo, drained by                     *)
(* update_finisher_meter, emptied by the LockOn-to-PreImpact transition.   *)
(* The meter is kept in units of 1 / MeterScale of a point, so that one    *)
(* decay call at time scale 0.1 is one unit.                               *)
(***************************************************************************)
MeterScale == 300                \* 1 / (decay_per_frame * 0.1), decay_per_frame = 2.0 / 60
MeterTop == MeterFull * MeterScale

\* add_combo on the meter: mr is [meter, ready], c is combo["current"] after
\* the increment
add_combo_meter(mr, c) ==
    IF mr.ready THEN mr
    ELSE LET m == Min(MeterTop, mr.meter + combo_fill_rate(c) * MeterScale)
         IN [meter |-> m, ready |-> (m >= MeterTop)]

\* variant of update_finisher_meter: ready is left as it is
update_finisher_meter_keep_ready(mr, current, ts) ==
    IF current = 0 /\ mr.meter > 0
    THEN [mr EXCEPT !.meter = Max(0, mr.meter - ts)]
    ELSE mr

\* update_finisher_meter; ts is g_game_state["time_scale"] in tenths
update_finisher_meter(mr, current, ts) ==
    IF current = 0 /\ mr.meter > 0
    THEN LET m == Max(0, mr.meter - ts)
         IN [meter |-> m, ready |-> IF m < MeterTop THEN FALSE ELSE mr.ready]
    ELSE mr

\* the time scales update_finisher_meter can meet in each part of the
\* finisher sequence
MeterTimeScales(phase) ==
    CASE phase = "idle" -> {NormalTimeScale}
      [] phase = "lock_on" -> {finisher_lock_on_scale}
      [] OTHER -> {finisher_lock_on_scale, finisher_time_scale, NormalTimeScale}

\* a kill: add_combo
MeterKill ==
    /\ fm_combo < MaxCombo
    /\ fm_combo' = fm_combo + 1
    /\ fm' = add_combo_meter(fm, fm_combo + 1)
    /\ fm_cause' = "kill"
    /\ UNCHANGED fm_phase

\* update_combo_system: the combo timer has run out
MeterComboTimeout ==
    /\ fm_combo > 0
    /\ fm_combo' = 0
    /\ fm_cause' = "timeout"
    /\ UNCHANGED <<fm, fm_phase>>

\* update_finisher_meter
MeterDecay(ts) ==
    /\ ts \in MeterTimeScales(fm_phase)
    /\ fm' = update_finisher_meter(fm, fm_combo, ts)
    /\ fm' # fm
    /\ fm_cause' = "decay"
    /\ UNCHANGED <<fm_combo, fm_phase>>

\* handle_dash_input starts a finisher
MeterFinisherStart ==
    /\ fm.ready /\ fm_phase = "idle"
    /\ fm_phase' = "lock_on"
    /\ fm_cause' = "start"
    /\ UNCHANGED <<fm, fm_combo>>

\* update_finisher, LockOn to PreImpact: meter = 0.0, ready = False
MeterLockOnDone ==
    /\ fm_phase = "lock_on"
    /\ fm_phase' = "running"
    /\ fm' = [meter |-> 0, ready |-> FALSE]
    /\ fm_cause' = "transition"
    /\ UNCHANGED fm_combo

\* update_finisher, PostImpact to Idle
MeterFinisherDone ==
    /\ fm_phase = "running"
    /\ fm_phase' = "idle"
    /\ fm_cause' = "done"
    /\ UNCHANGED <<fm, fm_combo>>

\* reset_game
InitMeter ==
    /\ fm = [meter |-> 0, ready |-> FALSE]
    /\ fm_combo = 0
    /\ fm_phase = "idle"
    /\ fm_cause = "none"

(***************************************************************************)
(* Powerup pickup: the lives counter between pickups, hits and a new game. *)
(***************************************************************************)
ship_max_lives == 5              \* Cfg.ship_max_lives
PowerUpTypes == {"shield", "life", "crystal"}

\* variant of handle_life_powerup: one more life, no cap
handle_life_powerup_uncapped(n) == n + 1

\* handle_life_powerup
handle_life_powerup(n) == Min(n + 1, ship_max_lives)

\* apply_powerup, as far as the lives counter goes
apply_powerup(type, n) == IF type = "life" THEN handle_life_powerup(n) ELSE n

\* the loop of handle_powerup_collisions from the i-th powerup on; st is
\* [lives, remove], remove being powerups_to_remove
RECURSIVE PickupLoop(_, _, _, _)
PickupLoop(st, ps, shipx, i) ==
    IF i > Len(ps) THEN st
    ELSE IF check_collision(shipx, ps[i].x)
         THEN PickupLoop([lives |-> apply_powerup(ps[i].type, st.lives),
                          remove |-> st.remove \cup {i}], ps, shipx, i + 1)
         ELSE PickupLoop(st, ps, shipx, i + 1)

\* handle_powerup_collisions with the powerup types
PickupPass ==
    LET r == PickupLoop([lives |-> pk_lives, remove |-> {}], pk_powerups, pk_ship_x, 1)
    IN /\ ~pk_game_over
       /\ pk_lives' = r.lives
       /\ pk_powerups' = KeepUnmarked(pk_powerups, r.remove)
       /\ pk_cause' = "pickup"
       /\ pk_picked' = Cardinality({i \in r.remove : pk_powerups[i].type = "life"})
       /\ UNCHANGED <<pk_ship_x, pk_game_over>>

\* create_powerup: a powerup of a type is dropped at cell x
PickupDrop(x, type) ==
    /\ ~pk_game_over
    /\ Len(pk_powerups) < MaxPickups
    /\ pk_powerups' = Append(pk_powerups, [x |-> x, type |-> type])
    /\ pk_cause' = "drop"
    /\ UNCHANGED <<pk_ship_x, pk_lives, pk_game_over, pk_picked>>

\* update_ship: the ship moves to cell x
PickupShipMove(x) ==
    /\ ~pk_game_over
    /\ pk_ship_x' = x
    /\ pk_cause' = "move"
    /\ UNCHANGED <<pk_lives, pk_game_over, pk_powerups, pk_picked>>

\* handle_ship_damage without a shield: a life is lost
PickupLifeLost ==
    /\ ~pk_game_over
    /\ pk_lives' = pk_lives - 1
    /\ pk_game_over' = (pk_lives - 1 <= 0)
    /\ pk_cause' = "hit"
    /\ UNCHANGED <<pk_ship_x, pk_powerups, pk_picked>>

\* reset_game after a game over
PickupNewGame ==
    /\ pk_game_over
    /\ pk_lives' = StartLives
    /\ pk_game_over' = FALSE
    /\ pk_powerups' = <<>>
    /\ pk_ship_x' = ShipCentre
    /\ pk_cause' = "reset"
    /\ UNCHANGED pk_picked

InitPick ==
    /\ pk_ship_x = ShipCentre
    /\ pk_lives = StartLives
    /\ pk_game_over = FALSE
    /\ pk_powerups = <<>>
    /\ pk_cause = "none"
    /\ pk_picked = 0

(***************************************************************************)
(* One handle_collisions call with player bullets, asteroids and the ship: *)
(* the grid is filled at the head of handle_bullet_collisions and read     *)
(* again by handle_ship_asteroid_collisions.                               *)
(***************************************************************************)
NoShipHit == [by |-> 0, present |-> TRUE]

\* handle_ship_asteroid_collisions on the objects of the grid: grid is the
\* list of asteroids inserted at the head of the call, removed the indices
\* handle_bullet_collisions took out of g_asteroids; the first asteroid in
\* contact calls handle_ship_damage, which returns True (no shield)
RECURSIVE ShipAsteroidScan(_, _, _, _)
ShipAsteroidScan(shipx, grid, removed, j) ==
    IF j > Len(grid) THEN NoShipHit
    ELSE IF check_collision(shipx, grid[j].x)
         THEN [by |-> j, present |-> j \notin removed]
         ELSE ShipAsteroidScan(shipx, grid, removed, j + 1)

\* handle_collisions: handle_bullet_collisions, then
\* handle_ship_collisions_if_vulnerable
TickCollisions(vulnerable) ==
    LET r == BulletCollisionPass(tk_bullets, tk_asteroids, <<>>, FALSE, 1)
    IN /\ ~tk_ran
       /\ tk_bullets' = r.bullets
       /\ tk_asteroids' = r.asteroids
       /\ tk_hit' = IF vulnerable
                    THEN ShipAsteroidScan(tk_ship_x, tk_asteroids,
                                          r.acc.asteroids_to_remove, 1)
                    ELSE NoShipHit
       /\ tk_ran' = TRUE
       /\ UNCHANGED tk_ship_x

\* shoot_bullet: a player bullet has reached cell x
TickBullet(x) ==
    /\ ~tk_ran
    /\ Len(tk_bullets) < MaxFieldBullets
    /\ tk_bullets' = Append(tk_bullets, [x |-> x])
    /\ UNCHANGED <<tk_ship_x, tk_asteroids, tk_hit, tk_ran>>

\* create_asteroid: an asteroid of a size at cell x
TickAsteroid(x, size) ==
    /\ ~tk_ran
    /\ Len(tk_asteroids) < MaxFieldAsteroids
    /\ tk_asteroids' = Append(tk_asteroids,
                              [x |-> x, size |-> size, is_boss |-> FALSE, health |-> 1])
    /\ UNCHANGED <<tk_ship_x, tk_bullets, tk_hit, tk_ran>>

\* update_ship: the ship moves to cell x
TickShipMove(x) ==
    /\ ~tk_ran
    /\ tk_ship_x' = x
    /\ UNCHANGED <<tk_bullets, tk_asteroids, tk_hit, tk_ran>>

\* reset_game
TickReset ==
    /\ tk_ran
    /\ tk_ship_x' = ShipCentre
    /\ tk_bullets' = <<>>
    /\ tk_asteroids' = <<>>
    /\ tk_hit' = NoShipHit
    /\ tk_ran' = FALSE

InitTick ==
    /\ tk_ship_x = ShipCentre
    /\ tk_bullets = <<>>
    /\ tk_asteroids = <<>>
    /\ tk_hit = NoShipHit
    /\ tk_ran = FALSE

(***************************************************************************)
(* The broad phase against the exact check. One position unit is half a    *)
(* cell (40 px of the 80 px cell). The querier's radius plus the margin of *)
(* the exact check (10 + 12 px for the ship, 2 + 12 px for a bullet) is    *)
(* taken as a whole cell, which is more than the code's: on whole units    *)
(* the strict comparison then reaches one unit beyond the object's radius. *)
(***************************************************************************)
query_reach == cell_size         \* ship_radius + asteroid_collision_margin, at most a cell
TargetId == 1
TargetRadii == {0, 1, 3}         \* up to more than a cell
TargetXs == (0 - MaxOutside) .. (GridCols * cell_size - 1 + MaxOutside)
TargetYs == (0 - MaxOutside) .. (GridRows * cell_size - 1 + MaxOutside)
QueryXs == 0 .. GridCols * cell_size - 1
QueryYs == 0 .. GridRows * cell_size - 1
NoInserted == [x |-> 0, y |-> 0, radius |-> 0 - 1]
NoBroadQuery == [x |-> 0, y |-> 0, asked |-> FALSE]

\* variant of BlockKeys: only the querier's own cell is visited
BlockKeysCentre(x, y) ==
    [n \in 1 .. 9 |-> <<(x \div cell_size) % GridCols, (y \div cell_size) % GridRows>>]

\* the keys get_nearby_objects visits
NearbyKeys(x, y) == BlockKeys(x, y)

\* get_nearby_objects for the ship or a player bullet (never in the grid)
QuerierNearby(grid, x, y) ==
    CollectNearby(BlockEntries(grid, NearbyKeys(x, y), 1), 1, ShipId, {}, <<>>)

\* the head of handle_bullet_collisions in the next tick: clear()
BroadClear ==
    /\ bp_query.asked
    /\ bp_grid' = SpatialGrid_clear
    /\ bp_target' = NoInserted
    /\ bp_query' = NoBroadQuery
    /\ bp_nearby' = <<>>

\* insert(obj, radius) on the cleared grid
BroadInsert(x, y, radius) ==
    /\ bp_target = NoInserted
    /\ bp_grid' = SpatialGrid_insert(bp_grid, TargetId, x, y, radius)
    /\ bp_target' = [x |-> x, y |-> y, radius |-> radius]
    /\ UNCHANGED <<bp_query, bp_nearby>>

\* get_nearby_objects(bullet, ...) / get_nearby_objects(g_ship, ...)
BroadQuery(x, y) ==
    /\ bp_target # NoInserted
    /\ ~bp_query.asked
    /\ bp_query' = [x |-> x, y |-> y, asked |-> TRUE]
    /\ bp_nearby' = QuerierNearby(bp_grid, x, y)
    /\ UNCHANGED <<bp_grid, bp_target>>

InitBroad ==
    /\ bp_grid = SpatialGrid_clear
    /\ bp_target = NoInserted
    /\ bp_query = NoBroadQuery
    /\ bp_nearby = <<>>

laterVars == <<fieldVars, rateVars, shipVars, gridVars, collVars, meterVars, pickVars,
               tickVars, broadVars>>

vars == <<schedVars, comboVars, poolVars, wrapVars, gameVars, flowVars, laterVars>>

InitAll ==
    /\ InitSched /\ InitCombo /\ InitPool /\ InitWrap /\ InitGame /\ InitFlow
    /\ InitField /\ InitRates /\ InitShip /\ InitGrid /\ InitCollide /\ InitMeter /\ InitPick /\ InitTick /\ InitBroad

\* the combat state, call by call
Next ==
    /\ \/ \E target \in EnemyIds \cup {NoTarget} :
            (target = NoTarget \/ target \in g_enemies) /\ DashInput(target)
       \/ TickUpdateShip
       \/ TickPhysicsOnly
       \/ \E kill \in {"none", "asteroid", "enemy"} : \E e \in EnemyIds :
            \E spawn \in BOOLEAN : TickHandleCollisions(kill, e, spawn)
       \/ TickUpdateFinisher
       \/ TickUpdateShipTimers
    /\ UNCHANGED <<schedVars, comboVars, poolVars, wrapVars, flowVars, laterVars>>

Spec == InitAll /\ [][Next]_vars

\* the scheduler alone: every frame delta, no kill
NextSched ==
    /\ \E ms \in 0 .. MaxRawMs : UpdateGameStateFrame(ms, 0)
    /\ UNCHANGED <<poolVars, wrapVars, gameVars, flowVars, laterVars>>

SpecSched == InitAll /\ [][NextSched]_vars

\* the particle pool alone
NextPool ==
    /\ \/ \E k \in 1 .. MaxLife : CreateParticle(k * NormalTimeScale)
       \/ \E ts \in PoolTimeScales : UpdateParticles(ts)
       \/ ClearParticles
    /\ UNCHANGED <<schedVars, comboVars, wrapVars, gameVars, flowVars, laterVars>>

SpecPool == InitAll /\ [][NextPool]_vars

\* the particle pool under the frame loop, which calls update_visual_effects
\* (and with it ParticlePool.update) on every frame
FrameUpdateParticles ==
    /\ \E ts \in PoolTimeScales : UpdateParticles(ts)
    /\ UNCHANGED <<schedVars, comboVars, wrapVars, gameVars, flowVars, laterVars>>

SpecPoolFrames == InitAll /\ [][NextPool]_vars /\ WF_vars(FrameUpdateParticles)

\* the scheduler with kills: frames of 25 ms and of 50 ms, a kill in any tick
FrameMs == {25, 50}

NextCombo ==
    /\ \E ms \in FrameMs : \E killTick \in 0 .. MaxPhysicsUpdates :
          UpdateGameStateFrame(ms, killTick)
    /\ UNCHANGED <<poolVars, wrapVars, gameVars, flowVars, laterVars>>

\* the play field alone
NextWrap ==
    /\ \/ \E shipVx \in Velocities : \E off \in (0 - DropSpread) .. DropSpread :
            \E pvx \in Velocities : WrapPhysicsTick(shipVx, off, pvx)
       \/ \E dir \in {0 - 1, 1} : ShootBullet(dir)
       \/ \E x \in asteroid_spawn_margin .. (g_screen_width - asteroid_spawn_margin) :
            \E vx \in {0 - 1, 1} : \E h \in 1 .. MaxBossHealth : \E boss \in BOOLEAN :
               SpawnAsteroid(x, vx, h, boss)
    /\ UNCHANGED <<schedVars, comboVars, poolVars, gameVars, flowVars, laterVars>>

SpecWrap == InitAll /\ [][NextWrap]_vars

\* update_game_state statement by statement
NextFlow ==
    /\ \/ \E ms \in FrameMs : FrameStart(ms)
       \/ LoopTest
       \/ CallUpdateShip
       \/ \E vx \in Velocities : CallUpdatePhysicsOnly(vx)
       \/ \E cleared, vulnerable \in BOOLEAN :
             \E shots \in 0 .. MaxBullets : CallHandleCollisions(cleared, shots, vulnerable)
       \/ CallUpdateFinisher
       \/ CallUpdateShipTimers
       \/ FrameEnd
    /\ UNCHANGED <<comboVars, poolVars, wrapVars, gameVars, laterVars>>

SpecFlow == InitAll /\ [][NextFlow]_vars

SpecCombo == InitAll /\ [][NextCombo]_vars

\* bullet collision passes over a field set up object by object
NextField ==
    /\ \/ \E x \in FieldCells : PlaceBullet(x)
       \/ \E x \in FieldCells, size \in 1 .. asteroid_max_size, boss \in BOOLEAN :
            PlaceAsteroid(x, size, boss)
       \/ \E x \in FieldCells : PlaceEnemy(x)
       \/ \E enemy_first \in BOOLEAN, damage \in DamageMultipliers :
            RunBulletCollisions(enemy_first, damage)
       \/ ResetField
    /\ UNCHANGED <<schedVars, comboVars, poolVars, wrapVars, gameVars, flowVars, rateVars, shipVars,
                   gridVars, collVars, meterVars, pickVars, tickVars,
                   broadVars>>

SpecField == InitAll /\ [][NextField]_vars

\* frames of every delta, the sub-rate runs counted
NextRates ==
    /\ \E ms \in 0 .. MaxRawMs : CountedFrame(ms)
    /\ UNCHANGED <<poolVars, wrapVars, gameVars, flowVars, fieldVars, shipVars,
                   gridVars, collVars, meterVars, pickVars, tickVars,
                   broadVars>>

SpecRates == InitAll /\ [][NextRates]_vars

\* the ship among hazards, tick by tick
NextShip ==
    /\ \/ \E x \in FieldCells : ShipTick(x)
       \/ \E x \in FieldCells : HazardAsteroid(x)
       \/ \E x \in FieldCells : HazardEnemy(x)
       \/ \E x \in FieldCells : HazardEnemyBullet(x)
       \/ CollectShield
    /\ UNCHANGED <<schedVars, comboVars, poolVars, wrapVars, gameVars, flowVars, fieldVars,
                   rateVars, gridVars, collVars, meterVars, pickVars, tickVars,
                   broadVars>>

SpecShip == InitAll /\ [][NextShip]_vars

\* the spatial grid on its own
NextGrid ==
    /\ \/ GridClear
       \/ \E x \in GridXs, y \in EntityYs, radius \in GridRadii : GridInsert(x, y, radius)
       \/ \E x \in GridXs, y \in GridYs : GridQueryShip(x, y)
       \/ \E e \in GridEntities : GridQueryEntity(e)
    /\ UNCHANGED <<schedVars, comboVars, poolVars, wrapVars, gameVars, flowVars, fieldVars,
                   rateVars, shipVars, collVars, meterVars, pickVars, tickVars, broadVars>>

SpecGrid == InitAll /\ [][NextGrid]_vars

\* the ship and an asteroid on the wrap-around field
NextCollide ==
    /\ \/ \E x \in 0 .. FieldW - 1, y \in 0 .. FieldH - 1 : ShipAt(x, y)
       \/ \E x \in 0 .. FieldW - 1, y \in 0 .. FieldH - 1, radius \in AsteroidRadii :
             AsteroidAt(x, y, radius)
       \/ ShipAsteroidCheck
    /\ UNCHANGED <<schedVars, comboVars, poolVars, wrapVars, gameVars, flowVars, fieldVars,
                   rateVars, shipVars, gridVars, meterVars, pickVars, tickVars, broadVars>>

SpecCollide == InitAll /\ [][NextCollide]_vars

\* the finisher meter on its own
NextMeter ==
    /\ \/ MeterKill
       \/ MeterComboTimeout
       \/ \E ts \in {NormalTimeScale, finisher_lock_on_scale, finisher_time_scale} :
             MeterDecay(ts)
       \/ MeterFinisherStart
       \/ MeterLockOnDone
       \/ MeterFinisherDone
    /\ UNCHANGED <<schedVars, comboVars, poolVars, wrapVars, gameVars, flowVars, fieldVars,
                   rateVars, shipVars, gridVars, collVars, pickVars, tickVars, broadVars>>

SpecMeter == InitAll /\ [][NextMeter]_vars

\* powerup pickups among hits and new games
NextPick ==
    /\ \/ PickupPass
       \/ \E x \in FieldCells, type \in PowerUpTypes : PickupDrop(x, type)
       \/ \E x \in FieldCells : PickupShipMove(x)
       \/ PickupLifeLost
       \/ PickupNewGame
    /\ UNCHANGED <<schedVars, comboVars, poolVars, wrapVars, gameVars, flowVars, fieldVars,
                   rateVars, shipVars, gridVars, collVars, meterVars, tickVars, broadVars>>

SpecPick == InitAll /\ [][NextPick]_vars

\* handle_collisions calls on fields of bullets, asteroids and the ship
NextTick ==
    /\ \/ \E vulnerable \in BOOLEAN : TickCollisions(vulnerable)
       \/ \E x \in FieldCells : TickBullet(x)
       \/ \E x \in FieldCells, size \in 1 .. asteroid_max_size : TickAsteroid(x, size)
       \/ \E x \in FieldCells : TickShipMove(x)
       \/ TickReset
    /\ UNCHANGED <<schedVars, comboVars, poolVars, wrapVars, gameVars, flowVars, fieldVars,
                   rateVars, shipVars, gridVars, collVars, meterVars, pickVars, broadVars>>

SpecTick == InitAll /\ [][NextTick]_vars

\* rebuilds of the grid with one object, and queries against it
NextBroad ==
    /\ \/ BroadClear
       \/ \E x \in TargetXs, y \in TargetYs, radius \in TargetRadii : BroadInsert(x, y, radius)
       \/ \E x \in QueryXs, y \in QueryYs : BroadQuery(x, y)
    /\ UNCHANGED <<schedVars, comboVars, poolVars, wrapVars, gameVars, flowVars, fieldVars,
                   rateVars, shipVars, gridVars, collVars, meterVars, pickVars, tickVars>>

SpecBroad == InitAll /\ [][NextBroad]_vars

(***************************************************************************)
(* Properties of the scheduler                                             *)
(***************************************************************************)
\* C1: with frame deltas clamped to [0, 50 ms] and the accumulator starting
\* at 0, after the loop of every update_game_state call the accumulator
\* satisfies 0 <= physics_accumulator < PHYSICS_DT, and the render
\* interpolation fraction accumulator / PHYSICS_DT is in [0, 1).
AccumulatorBelowTick ==
    /\ 0 <= physics_accumulator
    /\ physics_accumulator < PHYSICS_DT
    /\ frame_ran => (0 <= render_alpha /\ render_alpha < PHYSICS_DT)

\* a frame whose clamped delta made the loop run three ticks and left a remainder
AccumulatorAfterLongFrame ==
    /\ frame_ran
    /\ physics_updates = 3
    /\ physics_accumulator > 0

(***************************************************************************)
(* Properties of the combo countdown                                       *)
(***************************************************************************)
\* C6: when a kill has set combo.timer to 180 at time scale 1.0 and no
\* further kill occurs, then once 180 physics ticks have run (over frames of
\* any delta up to 50 ms) combo.current is 0 and combo.max is at least the
\* combo value held before the reset.
ComboResetAfterTimeoutTicks ==
    (armed /\ quiet_ticks >= combo_timeout \div NormalTimeScale)
        => (combo.current = 0 /\ combo.max >= armed_combo)

(***************************************************************************)
(* Properties of the particle pool                                         *)
(***************************************************************************)
\* C3: after any sequence of get / update / clear the active list and the
\* inactive set are disjoint, the active list has no duplicates, together
\* they hold every slot of the pool, a slot's active flag is set exactly
\* when its index is in the active list, and get() never returned a slot
\* that was already active.
PoolPartition ==
    /\ \A i, j \in 1 .. Len(active_indices) : active_indices[i] = active_indices[j] => i = j
    /\ Range(active_indices) \cap inactive_indices = {}
    /\ Range(active_indices) \cup inactive_indices = Slots
    /\ Len(active_indices) + Cardinality(inactive_indices) = PoolSize
    /\ \A i \in Slots : pool[i].active <=> i \in Range(active_indices)
    /\ ~got_active

\* get() has just handed out a slot while another slot, released by update()
\* when its life ran out, is back in the inactive set
PoolSlotReleasedAndReacquired ==
    /\ last_op = "get"
    /\ last_get # NoSlot
    /\ \E i \in inactive_indices : pool[i].life < 0

\* C4: when every slot is active, get() returns None, raises nothing and
\* leaves the pool unchanged; the caller that receives None creates no
\* particle (writes no slot).
ExhaustedGetReturnsNone ==
    [][(inactive_indices = {} /\ last_op' = "get" /\ <<last_op, last_get>>' # <<last_op, last_get>>)
          => (/\ last_get' = NoSlot
              /\ pool' = pool
              /\ active_indices' = active_indices
              /\ inactive_indices' = inactive_indices)]_vars

\* get() was called on a pool with every slot active and returned None
ExhaustedGetHappened ==
    /\ last_op = "get"
    /\ last_get = NoSlot
    /\ Len(active_indices) = PoolSize
    /\ inactive_indices = {}

(***************************************************************************)
(* Properties of the play field                                            *)
(***************************************************************************)
\* C5: after any physics tick every live entity (ship, asteroid, powerup,
\* player bullet) has 0 <= x < g_screen_width.
InField(x) == 0 <= x /\ x < g_screen_width

EntitiesInFieldAfterTick ==
    after_tick =>
        /\ InField(g_ship_x)
        /\ \A i \in 1 .. Len(g_asteroids) : InField(g_asteroids[i].x)
        /\ \A i \in 1 .. Len(g_powerups) : InField(g_powerups[i].x)
        /\ \A i \in 1 .. Len(g_bullets) : InField(g_bullets[i].x)

(***************************************************************************)
(* Properties of the loop body                                             *)
(***************************************************************************)
CallRank(name) ==
    CASE name = "update_ship" -> 1
      [] name = "update_physics_only" -> 2
      [] name = "handle_collisions" -> 3
      [] name = "update_finisher" -> 4
      [] OTHER -> 5

\* C7: within one tick update_ship runs before update_physics_only, which
\* runs before handle_collisions, which runs before update_finisher; no tick
\* makes these calls in another order.
TickCallOrder ==
    \A i, j \in 1 .. Len(calls) : i < j => CallRank(calls[i]) < CallRank(calls[j])

\* a tick outside a level transition has made all of its calls
TickMadeAllCalls ==
    /\ level_transition = 0
    /\ calls = <<"update_ship", "update_physics_only", "handle_collisions",
                 "update_finisher", "update_ship_timers">>

(***************************************************************************)
(* Properties of the finisher                                              *)
(***************************************************************************)
PhaseChain == <<"lock_on", "pre_impact", "impact", "post_impact", "idle">>

IsPrefix(a, b) == Len(a) <= Len(b) /\ \A i \in 1 .. Len(a) : a[i] = b[i]

\* update_finisher calls from the start to the end of phase p
CallsThrough(p) ==
    CASE p = LOCK_ON -> finisher_lock_on_time
      [] p = PRE_IMPACT -> finisher_lock_on_time + finisher_pre_impact_time
      [] p = IMPACT -> finisher_lock_on_time + finisher_pre_impact_time + finisher_impact_time
      [] OTHER -> finisher_lock_on_time + finisher_pre_impact_time + finisher_impact_time
                    + finisher_post_impact_time

FinisherNeverRestarted ==
    /\ ~started_while_executing
    /\ Cardinality({i \in 1 .. Len(visited) : visited[i] = "lock_on"}) <= 1
    /\ finisher.executing => (finisher.target = locked_target /\ locked_target # NoTarget)

\* a dash was pressed during LockOn with the meter still ready: it became a
\* normal dash, not a second finisher
DashPressedDuringLockOn ==
    /\ finisher.executing
    /\ finisher.ready
    /\ PhaseValue(finisher.phase) = "lock_on"
    /\ g_ship.dashing > 0

\* C9: once a finisher has started, no dash input, shot, target death or
\* other event changes finisher.phase or finisher.executing, only
\* update_finisher does; and the sequence reaches PostImpact and Idle, which
\* takes the update_finisher calls of the four phases.
FinisherRunsUninterrupted ==
    /\ [][(finisher.executing /\ pc # "update_finisher")
             => (finisher'.phase = finisher.phase
                 /\ finisher'.executing = finisher.executing)]_vars
    /\ [](finisher_calls >= CallsThrough(POST_IMPACT) => ~finisher.executing)

\* C10: whenever the finisher phase is Idle the time scale is 1.0; in
\* particular when PostImpact completes the phase is Idle, executing is
\* false, the target is cleared and the time scale is 1.0.
IdleAtNormalTimeScale ==
    PhaseValue(finisher.phase) = "idle" =>
        /\ time_scale = NormalTimeScale
        /\ ~finisher.executing
        /\ finisher.target = NoTarget

\* update_finisher has just completed PostImpact
PostImpactJustCompleted ==
    /\ pc = After("update_finisher")
    /\ visited = PhaseChain
    /\ finisher.phase = IDLE
    /\ locked_target # NoTarget
    /\ time_scale = NormalTimeScale

(***************************************************************************)
(* Ship vulnerability while a finisher executes                            *)
(***************************************************************************)
\* C11: on every physics tick on which a finisher is executing the ship is
\* not vulnerable when handle_collisions resolves the collisions
\* (invulnerable > 0 or dashing > 0), so it loses no life and no shield
\* during the sequence.
ShipShieldedWhileFinisherExecutes ==
    (pc = "handle_collisions" /\ finisher.executing) => ~is_ship_vulnerable(g_ship)

\* C12: during one Impact phase apply_shockwave_damage hits any given enemy
\* at most twice, never on every tick of the phase.
ShockwaveHitsAtMostTwice ==
    \A e \in EnemyIds : shockwave_hits[e] <= Cardinality(damage_points)

\* an Impact phase has run all its ticks with an enemy alive beside the
\* executed target
ImpactPhaseRanWithEnemyAlive ==
    /\ PhaseValue(finisher.phase) = "post_impact"
    /\ finisher_calls = CallsThrough(IMPACT)
    /\ g_enemies # {}

(***************************************************************************)
(* Properties of the bullet collision pass                                 *)
(***************************************************************************)
\* entries of a handler log or contact list that concern asteroid j
OnAsteroid(entries, j) ==
    {n \in 1 .. Len(entries) : entries[n].kind = "asteroid" /\ entries[n].index = j}

\* the handler calls of the last pass that split an asteroid, in call order
SplitCalls ==
    SelectSeq(pass_result.log,
              LAMBDA e : /\ e.kind = "asteroid"
                         /\ ~pass_before.asteroids[e.index].is_boss
                         /\ pass_before.asteroids[e.index].size > 1)

\* C13: a bullet hit on an asteroid that is no boss removes the asteroid at
\* the end of the pass; for size s > 1 exactly two asteroids of size s - 1
\* are added at the parent's position, for size 1 none is added.
SplitLaw ==
    pass_ran =>
      LET before == pass_before.asteroids
          added  == pass_result.asteroids_to_add
          gone   == pass_result.asteroids_to_remove
          kept   == Len(before) - Cardinality(gone)
      IN /\ \A j \in 1 .. Len(before) :
               (~before[j].is_boss /\ OnAsteroid(pass_result.log, j) # {}) => j \in gone
         /\ Len(field_asteroids) = kept + Len(added)
         /\ SubSeq(field_asteroids, 1, kept) = KeepUnmarked(pass_result.asteroids, gone)
         /\ SubSeq(field_asteroids, kept + 1, Len(field_asteroids)) = added
         /\ Len(added) = 2 * Len(SplitCalls)
         /\ \A k \in 1 .. Len(SplitCalls) : \A c \in {2 * k - 1, 2 * k} :
               /\ added[c].x = before[SplitCalls[k].index].x
               /\ added[c].size = before[SplitCalls[k].index].size - 1
               /\ ~added[c].is_boss

\* one pass in which a bullet split an asteroid of size 3 and another bullet
\* destroyed an asteroid of size 1
SplitAndSmallestHit ==
    /\ pass_ran
    /\ \E e \in {pass_result.log[n] : n \in 1 .. Len(pass_result.log)} :
          /\ e.kind = "asteroid"
          /\ ~pass_before.asteroids[e.index].is_boss
          /\ pass_before.asteroids[e.index].size = asteroid_max_size
    /\ \E e \in {pass_result.log[n] : n \in 1 .. Len(pass_result.log)} :
          /\ e.kind = "asteroid"
          /\ pass_before.asteroids[e.index].size = 1
    /\ Len(field_asteroids) = 2

\* the objects of the field of the last pass that bullet i was in contact with
InContact(i) ==
    {[kind |-> "asteroid", index |-> j] : j \in
        {j \in 1 .. Len(pass_before.asteroids) :
            check_collision(pass_before.bullets[i].x, pass_before.asteroids[j].x)}}
    \cup
    {[kind |-> "enemy", index |-> k] : k \in
        {k \in 1 .. Len(pass_before.enemies) :
            check_collision(pass_before.bullets[i].x, pass_before.enemies[k].x)}}

\* C18: in one bullet collision pass each player bullet dispatches at most
\* one hit handler, and every bullet that registered a hit is absent from
\* the bullet collection after the pass.
OneHandlerPerBullet ==
    pass_ran =>
      LET bs   == pass_before.bullets
          hitb == {i \in 1 .. Len(bs) : InContact(i) # {}}
      IN /\ \A i \in 1 .. Len(bs) :
               /\ Cardinality({n \in 1 .. Len(pass_result.log) :
                                  pass_result.log[n].bullet = i}) <= 1
               /\ Cardinality({n \in 1 .. Len(pass_result.contacts) :
                                  pass_result.contacts[n].bullet = i}) <= 1
         /\ pass_result.bullets_to_remove = hitb
         /\ Len(field_bullets) = Len(bs) - Cardinality(hitb)
         /\ \A k \in 1 .. Len(field_bullets) :
               /\ \A j \in 1 .. Len(pass_before.asteroids) :
                     ~check_collision(field_bullets[k].x, pass_before.asteroids[j].x)
               /\ \A j \in 1 .. Len(pass_before.enemies) :
                     ~check_collision(field_bullets[k].x, pass_before.enemies[j].x)

\* a pass in which one bullet was in contact with an asteroid and an enemy
\* at once, and another bullet was in contact with nothing
BulletTouchedTwoObjects ==
    /\ pass_ran
    /\ \E i \in 1 .. Len(pass_before.bullets) : Cardinality(InContact(i)) >= 2
                                                  /\ \E o \in InContact(i) : o.kind = "enemy"
    /\ Len(field_bullets) = 1
    /\ Len(pass_result.log) = 1

\* C19: when two or more player bullets hit the same asteroid (no boss) in
\* one pass, the asteroid is removed once, its handler runs once (one score
\* award, one combo increment, two children when its size is above 1), and
\* each of those bullets is removed.
DoubleHitHandledOnce ==
    pass_ran =>
      \A j \in 1 .. Len(pass_before.asteroids) :
        LET a    == pass_before.asteroids[j]
            hits == OnAsteroid(pass_result.contacts, j)
            runs == OnAsteroid(pass_result.log, j)
        IN (~a.is_boss /\ Cardinality(hits) >= 2) =>
             /\ Cardinality(runs) = 1
             /\ \A n \in runs : pass_result.log[n].award
             /\ j \in pass_result.asteroids_to_remove
             /\ \A n \in hits :
                   pass_result.contacts[n].bullet \in pass_result.bullets_to_remove
             /\ Len(field_bullets) <= Len(pass_before.bullets) - Cardinality(hits)
             /\ Len(field_asteroids) =
                   Len(pass_before.asteroids)
                     - Cardinality(pass_result.asteroids_to_remove)
                     + Len(pass_result.asteroids_to_add)
             /\ Cardinality({c \in 1 .. Len(pass_result.asteroids_to_add) :
                               /\ pass_result.asteroids_to_add[c].x = a.x
                               /\ pass_result.asteroids_to_add[c].size = a.size - 1})
                  = (IF a.size > 1 THEN 2 ELSE 0)
                      * Cardinality({i \in 1 .. Len(pass_before.asteroids) :
                                       /\ i \in pass_result.asteroids_to_remove
                                       /\ ~pass_before.asteroids[i].is_boss
                                       /\ pass_before.asteroids[i].x = a.x
                                       /\ pass_before.asteroids[i].size = a.size})

\* two bullets hit one asteroid of size above 1 in the same pass
TwoBulletsOnOneAsteroid ==
    /\ pass_ran
    /\ \E j \in 1 .. Len(pass_before.asteroids) :
          /\ ~pass_before.asteroids[j].is_boss
          /\ pass_before.asteroids[j].size > 1
          /\ Cardinality(OnAsteroid(pass_result.contacts, j)) >= 2
    /\ field_bullets = <<>>
    /\ Len(pass_result.asteroids_to_add) = 2

(***************************************************************************)
(* Properties of the sub-rate updates                                      *)
(***************************************************************************)
\* C14: each of the four sub-rate accumulators (AI, particles, UI, effects)
\* is in [0, interval) after every frame, and the number of runs of its
\* update equals floor(total elapsed clamped time / interval): no pending
\* step is lost and none runs early.
SubRateRunsMatchElapsed ==
    /\ 0 <= update_timers.ai /\ update_timers.ai < IntervalAi
    /\ 0 <= update_timers.particles /\ update_timers.particles < IntervalParticles
    /\ 0 <= update_timers.ui /\ update_timers.ui < IntervalUi
    /\ 0 <= update_timers.effects /\ update_timers.effects < IntervalEffects
    /\ update_runs.ai = total_dt \div IntervalAi
    /\ update_runs.particles = total_dt \div IntervalParticles
    /\ update_runs.ui = total_dt \div IntervalUi
    /\ update_runs.effects = total_dt \div IntervalEffects

\* the frames of a run have summed to the full elapsed time, every update
\* has run at least twice and the particle update is exactly on its interval
TwoPendingStepsAbsorbed ==
    /\ update_runs.ai >= 2
    /\ update_runs.ui >= 2
    /\ update_runs.effects >= 2
    /\ update_runs.particles >= 4
    /\ total_dt = MaxElapsed
    /\ update_timers.particles = 0

\* position of a frame-level call in the order the claim states: the physics
\* ticks, then AI, particles, UI, effects
FrameRank(name) ==
    CASE name = "tick" -> 0
      [] name = "ai" -> 1
      [] name = "particles" -> 2
      [] name = "ui" -> 3
      [] OTHER -> 4

\* C15: in every frame the sub-rate updates run only after the last physics
\* tick of that frame, and in the fixed order AI, particles, UI, effects.
SubRateAfterTicksInOrder ==
    /\ \A i, j \in 1 .. Len(frame_calls) :
          i < j => FrameRank(frame_calls[i]) <= FrameRank(frame_calls[j])
    /\ loop_pc # "frame" => \A i \in 1 .. Len(frame_calls) : frame_calls[i] = "tick"

\* a frame has run physics ticks and then each of the four sub-rate updates
FrameRanTicksAndAllSubRates ==
    /\ loop_pc = "frame"
    /\ \A name \in {"tick", "ai", "particles", "ui", "effects"} :
          \E i \in 1 .. Len(frame_calls) : frame_calls[i] = name

\* C16: every frame call runs between 0 and 4 physics ticks, and the number
\* is determined by the accumulator value and the clamped delta alone: it is
\* the number of whole PHYSICS_DT in their sum, at most 4.
TicksPerFrameDetermined ==
    [][\E d \in 0 .. MaxFrameDt :
          /\ physics_accumulator' + physics_updates' * PHYSICS_DT = physics_accumulator + d
          /\ physics_updates' = Min(MaxPhysicsUpdates,
                                    (physics_accumulator + d) \div PHYSICS_DT)
          /\ physics_updates' \in 0 .. 4]_vars

\* a frame has run three physics ticks and left a remainder in the accumulator
FrameRanThreeTicks ==
    /\ frame_ran
    /\ physics_updates = 3
    /\ physics_accumulator > 0

\* C17: at the start of each physics tick that runs, the interpolation
\* baseline prev_x of an entity equals the entity's position immediately
\* before that tick, also when several ticks run in the same frame.
BaselineIsPreTickPosition ==
    loop_pc = TickOrder[1] => asteroid_prev_x = asteroid_x

(***************************************************************************)
(* Properties of the ship's collisions                                     *)
(***************************************************************************)
\* C20: within one physics tick, once handle_ship_damage has applied a hit
\* that changes the ship's state (a shield absorption or a life loss), no
\* further ship hit is processed in that tick: the ship loses at most one
\* life, or only its shield, per tick.
OneShipHitPerTick ==
    tick_damage.shield + tick_damage.lives <= 1

(***************************************************************************)
(* Properties of the spatial grid                                          *)
(***************************************************************************)
\* C21: in every physics tick the spatial grid is cleared and rebuilt from
\* the asteroid, enemy and enemy-bullet collections exactly once, before any
\* query of that tick: when the tick has come to its last call, the log of
\* grid operations starts with the one clear-and-insert and holds no other.
GridRebuiltOncePerTick ==
    loop_pc = "update_ship_timers" =>
        /\ Len(grid_ops) >= 2
        /\ grid_ops[1] = "clear" /\ grid_ops[2] = "insert"
        /\ \A i \in 3 .. Len(grid_ops) : grid_ops[i] = "query"

\* the entities stored in the 3x3 block of cells, with modulo wrap, centred on
\* the cell of the position (x, y)
StoredInBlock(x, y) ==
    {e \in GridEntities :
        \E dx, dy \in {-1, 0, 1} :
            \E i \in DOMAIN sg_grid[<<((x \div cell_size) + dx) % GridCols,
                                      ((y \div cell_size) + dy) % GridRows>>] :
                sg_grid[<<((x \div cell_size) + dx) % GridCols,
                          ((y \div cell_size) + dy) % GridRows>>][i] = e}

\* C22: for any grid contents get_nearby_objects(obj, r) returns each entity
\* stored in the 3x3 block of cells (modulo wrap) centred on obj's cell
\* exactly once, never obj itself and nothing stored only outside the block;
\* on a cleared grid it returns the empty list.
NearbyIsBlockContents ==
    sg_query # NoQuery =>
        /\ \A i, j \in DOMAIN sg_nearby : sg_nearby[i] = sg_nearby[j] => i = j
        /\ {sg_nearby[i] : i \in DOMAIN sg_nearby}
               = StoredInBlock(sg_query.x, sg_query.y) \ {sg_query.obj}
        /\ (sg_inserted = 0 => sg_nearby = <<>>)

\* C22 witness: an entity of the grid asks for its neighbours, its own cell
\* holds it, and the answer holds an entity that lies in two cells of the
\* block
QueryWithStraddlingNeighbour ==
    /\ sg_query.obj \in GridEntities
    /\ sg_query.obj \in StoredInBlock(sg_query.x, sg_query.y)
    /\ \E i \in DOMAIN sg_nearby :
          Len(SelectSeq(BlockEntries(sg_grid, BlockKeys(sg_query.x, sg_query.y), 1),
                        LAMBDA e : e = sg_nearby[i])) >= 2

(***************************************************************************)
(* Properties of check_collision                                           *)
(***************************************************************************)
\* distance along one axis of a field of the given extent that wraps around
WrapGap(a, b, extent) ==
    LET d == IF a >= b THEN a - b ELSE b - a
    IN Min(d, extent - d)

\* C23: collision checks account for the wrap-around of the arena: a ship and
\* an asteroid whose circles overlap across an edge of the arena (or inside
\* it) are reported as colliding.
CollisionSeesAcrossEdges ==
    LET gx == WrapGap(cc_ship.x, cc_asteroid.x, FieldW)
        gy == WrapGap(cc_ship.y, cc_asteroid.y, FieldH)
        rr == ship_radius + cc_asteroid.radius
    IN (cc_checked /\ gx * gx + gy * gy < rr * rr) => cc_hit

\* C24: during the Impact phase a shockwave damage sweep is applied exactly
\* once when progress reaches 30% and exactly once when it reaches 60%, to
\* every enemy within the shockwave radius: once Impact is over, each enemy
\* still on the field has taken one hit for each of the two damage points.
ShockwaveSweptAtBothPoints ==
    finisher.phase = POST_IMPACT =>
        \A e \in g_enemies : shockwave_hits[e] = Cardinality(damage_points)

\* C25: over the Impact phase the shockwave radius grows linearly with the
\* elapsed ticks: after k of the 60 Impact ticks it equals
\* seed + (max - seed) * k / 60, from the seed at entry to the maximum at the
\* end (the radius is kept in sixtieths of a scaled pixel).
ShockwaveRadiusLinear ==
    finisher.phase = IMPACT =>
        finisher.shockwave_radius
            = shockwave_seed * finisher_impact_time
                + (finisher_shockwave_radius - shockwave_seed)
                    * (finisher_impact_time - finisher.execution_timer)

PhaseAtCall(n) ==
    IF n < CallsThrough(LOCK_ON) THEN LOCK_ON
    ELSE IF n < CallsThrough(PRE_IMPACT) THEN PRE_IMPACT
    ELSE IF n < CallsThrough(IMPACT) THEN IMPACT
    ELSE IF n < CallsThrough(POST_IMPACT) THEN POST_IMPACT
    ELSE IDLE

\* C27: each finisher phase lasts exactly its configured number of physics
\* ticks whatever the time scale (LockOn 30, PreImpact 6, Impact 60,
\* PostImpact 30), so the phase is Idle again exactly 126 ticks after the
\* trigger, and a transition happens only on the tick whose decrement brings
\* the countdown to zero.
PhasesLastConfiguredTicks ==
    locked_target # NoTarget =>
        /\ PhaseValue(finisher.phase) = PhaseValue(PhaseAtCall(finisher_calls))
        /\ finisher.executing => finisher.execution_timer >= 1

\* C28: handle_ship_damage is never invoked while the ship is invulnerable
\* (invulnerable > 0) or mid-dash (dashing > 0): every call of it in a tick
\* finds is_ship_vulnerable() true.
DamageOnlyWhenVulnerable ==
    tick_damage.guarded = 0

\* handle_ship_damage called on the ship as it is
DamageNow ==
    handle_ship_damage([ship |-> hz_ship, lives |-> lives, game_over |-> game_over,
                        damage |-> [shield |-> 0, lives |-> 0, guarded |-> 0]]).st

\* C29: with an active shield handle_ship_damage sets the shield to 0 and
\* leaves lives, position and respawn state unchanged; without a shield it
\* takes exactly one life and then sets game_over if and only if no life is
\* left, otherwise it resets the ship to the centre of the arena with
\* invulnerable = 120 ticks and respawning = 90 ticks.
ShipDamageContract ==
    IF hz_ship.shield_active > 0
    THEN /\ DamageNow.ship = [hz_ship EXCEPT !.shield_active = 0]
         /\ DamageNow.lives = lives
         /\ DamageNow.game_over = game_over
    ELSE /\ DamageNow.lives = lives - 1
         /\ DamageNow.game_over <=> DamageNow.lives <= 0
         /\ IF DamageNow.lives <= 0
            THEN DamageNow.ship = hz_ship
            ELSE /\ DamageNow.ship.x = ShipCentre
                 /\ DamageNow.ship.invulnerable = 120 * TickTenths
                 /\ DamageNow.ship.respawning = 90 * TickTenths
                 /\ DamageNow.ship.shield_active = 0

\* C29 witness: a tick in which the ship, off the centre, lost one life and
\* was put back at the centre to respawn
LifeLostAndShipReset ==
    /\ tick_damage = [shield |-> 0, lives |-> 1, guarded |-> 0]
    /\ lives >= 1
    /\ hz_ship.respawning = ship_respawn_duration
    /\ hz_ship.x = ShipCentre
    /\ \E j \in DOMAIN hz_asteroids : hz_asteroids[j] # ShipCentre

\* C30: every destruction of an enemy caused by the player (a bullet kill,
\* the finisher's execution of the locked target, a shockwave kill) increments
\* combo.current by exactly 1.
EveryKillCountsForCombo ==
    [][g_enemies' # g_enemies => combo_current' = combo_current + 1]_vars

(***************************************************************************)
(* Properties of the dash input                                            *)
(***************************************************************************)
\* a step of handle_dash_input that started a finisher
FinisherStarted ==
    /\ pc' = pc
    /\ finisher_calls' = 0
    /\ visited' = <<PhaseValue(LOCK_ON)>>
    /\ g_ship'.dashing = g_ship.dashing
    /\ <<finisher, time_scale, g_ship, histVars>>' # <<finisher, time_scale, g_ship, histVars>>

\* a step of handle_dash_input that started a normal dash
NormalDashStarted ==
    /\ pc' = pc
    /\ g_ship.dashing = 0
    /\ g_ship'.dashing = dash_duration
    /\ dash_cooldown' = dash_cooldown_time

MeterBoundsAndReady ==
    /\ [](/\ 0 <= fm.meter /\ fm.meter <= 100 * MeterScale
          /\ fm.ready <=> fm.meter = 100 * MeterScale)
    /\ [][(fm'.meter < fm.meter \/ (fm.ready /\ ~fm'.ready)) =>
             \/ fm_cause' = "decay" /\ fm_combo = 0
             \/ fm_cause' = "transition" /\ fm' = [meter |-> 0, ready |-> FALSE]]_vars

\* C32 witness: the decay has taken a full meter below 100 and cleared ready
FullMeterDecayed ==
    /\ fm_cause = "decay"
    /\ fm.meter = 100 * MeterScale - NormalTimeScale
    /\ ~fm.ready

\* C33: on each kill while the finisher is not ready the meter rises by 10
\* when the combo count after the increment is below 5, by 15 when it is 5 to
\* 9 and by 20 when it is 10 or more, capped at 100; while ready, a kill
\* leaves the meter unchanged.
MeterFillTiers ==
    [][fm_cause' = "kill" /\ fm_combo' = fm_combo + 1 =>
          IF fm.ready THEN fm' = fm
          ELSE LET gain == IF fm_combo' < 5 THEN 10
                           ELSE IF fm_combo' <= 9 THEN 15
                           ELSE 20
               IN fm'.meter = Min(100 * MeterScale, fm.meter + gain * MeterScale)]_vars

\* C33 witness: a kill at combo 10 or more has filled a meter that a
\* finisher had emptied, and the meter is not full
HighTierKillOnOpenMeter ==
    /\ fm_cause = "kill"
    /\ fm_combo >= combo_high_threshold
    /\ fm.meter >= fill_high * MeterScale
    /\ ~fm.ready

\* C34: the time scale scales the ship's countdown timers uniformly: on every
\* physics tick the invulnerable countdown (like the other ship timers and
\* the cooldowns) goes down by exactly time_scale, floored at 0, whether or
\* not the ship is respawning. Here for a tick at time scale 1.0 in which the
\* ship takes no damage.
TimersDropByTimeScalePerTick ==
    [][(hz_ship'.invulnerable # hz_ship.invulnerable /\ tick_damage'.lives = 0) =>
          hz_ship'.invulnerable = Max(0, hz_ship.invulnerable - NormalTimeScale)]_vars

\* C35: after every ParticlePool.update each slot whose remaining life is
\* <= 0 is inactive and in the free set, and each slot that was active and
\* still has life > 0 stays active (and out of the free set); with a positive
\* time scale and updates on every frame, every acquired particle is
\* eventually returned to the free set.
ExpiredSlotsFreed ==
    last_op = "update" =>
        \A i \in Slots :
            /\ pool[i].life <= 0 => (~pool[i].active /\ i \in inactive_indices)
            /\ i \in Range(active_indices) =>
                   (pool[i].active /\ pool[i].life > 0 /\ i \notin inactive_indices)
LiveSlotsStayActive ==
    last_op' = "update" =>
        \A i \in Slots :
            (i \in Range(active_indices) /\ pool'[i].life > 0) =>
                (pool'[i].active /\ i \in Range(active_indices'))
ParticlesExpireAndReturn ==
    /\ []ExpiredSlotsFreed
    /\ [][LiveSlotsStayActive]_vars
    /\ \A i \in Slots : (pool[i].active ~> i \in inactive_indices)
\* an update that has freed one slot and kept another one alive
UpdateFreedOneKeptOne ==
    /\ last_op = "update"
    /\ \E i, j \in Slots :
          /\ i \in inactive_indices /\ ~pool[i].active /\ pool[i].life <= 0
          /\ pool[i].life > 0 - NormalTimeScale
          /\ j \in Range(active_indices) /\ pool[j].life > 0

\* C36: picking up a Life powerup raises lives by one but never above
\* ship_max_lives (5), every powerup picked up is removed from the powerup
\* collection in the same pass (and no other), and lives <= 5 holds in every
\* reachable state.
LivesCapped == pk_lives <= ship_max_lives
PickupRaisesLivesAndRemoves ==
    pk_cause' = "pickup" =>
        LET touched == {i \in 1 .. Len(pk_powerups) : pk_powerups[i].x = pk_ship_x}
            life    == {i \in touched : pk_powerups[i].type = "life"}
        IN /\ pk_lives' = Min(pk_lives + Cardinality(life), ship_max_lives)
           /\ Cardinality(life) = 1 => pk_lives' \in {pk_lives + 1, ship_max_lives}
           /\ Len(pk_powerups') = Len(pk_powerups) - Cardinality(touched)
           /\ \A i \in 1 .. Len(pk_powerups') : pk_powerups'[i].x # pk_ship_x
           /\ \A i \in 1 .. Len(pk_powerups) :
                 i \notin touched => \E k \in 1 .. Len(pk_powerups') :
                                        pk_powerups'[k] = pk_powerups[i]
LifePickupCapped == []LivesCapped /\ [][PickupRaisesLivesAndRemoves]_vars
\* a Life powerup was taken with the counter at the cap afterwards, another
\* powerup staying on the field
LifeTakenAtCap ==
    /\ pk_cause = "pickup"
    /\ pk_picked >= 1
    /\ pk_lives = ship_max_lives
    /\ pk_powerups # <<>>

\* C37: the lives counter is never negative: lives >= 0 in every reachable
\* state, a hit that comes after the one that brought lives to 0 takes no
\* further life.
LivesNeverNegative == lives >= 0

\* C38: in no tick is the ship damaged by an asteroid that a player bullet
\* destroyed earlier in the same tick: the asteroid that triggers
\* handle_ship_damage is still in the asteroid collection at that moment.
ShipHitOnlyByPresentAsteroid == tk_hit.by # 0 => tk_hit.present

\* C39: the grid broad phase loses no collision: for an object inserted this
\* tick and a querying player bullet or ship inside the arena, if the exact
\* check (squared distance < (querier radius + target radius + margin)^2) is
\* true then the object is in get_nearby_objects(querier).
BroadPhaseLosesNoCollision ==
    (bp_query.asked /\ check_collision_radii(bp_query, bp_target, query_reach,
                                             bp_target.radius))
        => \E i \in DOMAIN bp_nearby : bp_nearby[i] = TargetId
\* a contact found across a cell border, the object's centre lying outside
\* the querier's cell
ContactAcrossCells ==
    /\ bp_query.asked
    /\ check_collision_radii(bp_query, bp_target, query_reach, bp_target.radius)
    /\ bp_target.x \div cell_size # bp_query.x \div cell_size
    /\ bp_nearby = <<TargetId>>

\* C40: while a finisher is executing, a dash input never starts a normal
\* dash: between the trigger and the return to Idle no step of
\* handle_dash_input sets ship.dashing and the dash cooldown.
NoNormalDashWhileExecuting ==
    [][finisher.executing => ~NormalDashStarted]_vars

====
